---- MODULE Spec2Model ----
(***************************************************************************)
(* Model of the agent-cad front-end interaction state: the Zustand model   *)
(* store (selection, features, reverse index, display flags), the feature  *)
(* name dialog, the features panel, the WebSocket hook (its reconnecting   *)
(* transport and its message dispatcher) and the vertex color buffer of    *)
(* the rendered mesh.                                                      *)
(*                                                                         *)
(* Strings are sequences of one-character strings, so that split, join,    *)
(* trim and the snake_case pattern are computed, not assumed.  A nullable  *)
(* value is a sequence of length 0 (null/undefined) or 1 (the value).      *)
(* A JavaScript object used as a dictionary is an insertion-ordered        *)
(* sequence of entries; a JavaScript Set is an insertion-ordered sequence  *)
(* without repetitions.  Records list their fields in one fixed order      *)
(* throughout the module.                                                  *)
(***************************************************************************)
EXTENDS Integers, Sequences, FiniteSets, TLC

VARIABLES
    isLoaded,         \* store.isLoaded
    facesMetadata,    \* store.facesMetadata : sequence of FaceMetadata
    meshData,         \* store.meshData : nullable mesh
    modelInfo,        \* store.modelInfo : nullable [length_scale, length_unit]
    pendingUploads,   \* Toolbar.uploadFile: the fetches of /api/upload still in flight
    selectedFaces,    \* store.selectedFaces : Set<number> in insertion order
    hoveredFace,      \* store.hoveredFace : face id, -1 for none
    multiSelectMode,  \* store.multiSelectMode
    features,         \* store.features : ordered entries [name, color, faces]
    faceToFeature,    \* store.faceToFeature : function face id -> name
    xrayMode,         \* store.xrayMode
    wireframeVisible, \* store.wireframeVisible
    colorsVisible,    \* store.colorsVisible
    gridPlane,        \* store.gridPlane : nullable plane name
    clipPlane,        \* store.clipPlane : nullable plane name
    clipOffset,       \* store.clipOffset
    clipFlipped,      \* store.clipFlipped
    showDialog,       \* FeaturesPanel: showDialog
    messages,         \* useWebSocket: messages (the observable log)
    connected,        \* useWebSocket: connected
    wsState,          \* useWebSocket: ws.readyState of the socket held in ws
    retryTimers,      \* useWebSocket: number of pending setTimeout(connect, 2000) timers
    retryTimeout,     \* useWebSocket: is the timer held in retryTimeout still pending
    cancelled,        \* useWebSocket: cancelled
    staleSocket,      \* useWebSocket: readyState of the socket of the effect run before
    waiting,          \* ChatPanel: waiting
    seen,             \* ChatPanel: length of `messages` when the waiting effect last ran
    replyOwed,        \* the agent of this connection has a chat message to answer
    colors,           \* CadModel: the color attribute of the geometry, nullable
    lastCall          \* the most recent handler that ran, its arguments and result

modelVars == <<isLoaded, facesMetadata, meshData, modelInfo, pendingUploads>>
featureVars == <<features, faceToFeature>>
displayVars == <<xrayMode, wireframeVisible, colorsVisible, gridPlane>>
clipVars == <<clipPlane, clipOffset, clipFlipped>>
hookVars == <<connected, wsState, retryTimers, retryTimeout, cancelled, staleSocket>>
panelVars == <<waiting, seen, replyOwed>>
transportVars == <<hookVars, panelVars>>
vars == <<isLoaded, facesMetadata, meshData, modelInfo, pendingUploads, selectedFaces,
          hoveredFace, multiSelectMode, features, faceToFeature, xrayMode, wireframeVisible,
          colorsVisible, gridPlane, clipPlane, clipOffset, clipFlipped, showDialog, messages,
          connected, wsState, retryTimers, retryTimeout, cancelled, staleSocket, waiting,
          seen, replyOwed, colors, lastCall>>

----------------------------------------------------------------------------
(* Bounds *)

MaxFaces == 2      \* faces of a loaded model without named faces (ids 1..n)
MaxNamed == 1      \* faces of a loaded model whose faces may carry names (ids 1..n)
MaxLog == 2        \* the message log is followed up to this length
MaxCmdIds == 2     \* length of the face_ids list of a select_faces command
MaxTimers == 2     \* reconnect timers that may be pending together
MaxUploads == 2    \* upload requests that may be in flight together
MaxMeasured == 3   \* faces of a loaded model whose faces carry geometry (ids 1..n)
MaxImported == 3   \* faces of a loaded model with hierarchical names (ids 1..n)
MaxTyped == 3      \* faces of a loaded model with faces of two surface types (ids 1..n)

----------------------------------------------------------------------------
(* Values *)

None == <<>>
Some(x) == <<x>>

Range(s) == {s[i] : i \in 1..Len(s)}

Planar == <<"p", "l", "a", "n", "a", "r">>
Cylindrical == <<"c", "y", "l", "i", "n", "d", "r", "i", "c", "a", "l">>
Unknown == <<"u", "n", "k", "n", "o", "w", "n">>

FEATURE_COLORS_length == 10

LowerChars == {"a", "b", "c", "d", "e", "i", "k", "l", "n", "o", "p", "r", "t", "u", "w", "y"}
DigitChars == {"0", "1", "2", "3", "4", "5", "6", "7", "8", "9"}

----------------------------------------------------------------------------
(* JavaScript string primitives, computed on sequences of characters *)

\* index of the first occurrence of c in s, 0 when there is none
RECURSIVE IndexOf(_, _, _)
IndexOf(s, c, from) ==
    IF from > Len(s) THEN 0
    ELSE IF s[from] = c THEN from
    ELSE IndexOf(s, c, from + 1)

\* String.prototype.split(".")
RECURSIVE SplitDot(_)
SplitDot(s) ==
    LET i == IndexOf(s, ".", 1) IN
    IF i = 0 THEN <<s>>
    ELSE <<SubSeq(s, 1, i - 1)>> \o SplitDot(SubSeq(s, i + 1, Len(s)))

\* Array.prototype.join(".")
RECURSIVE JoinDot(_)
JoinDot(parts) ==
    IF Len(parts) = 0 THEN <<>>
    ELSE IF Len(parts) = 1 THEN parts[1]
    ELSE parts[1] \o <<".">> \o JoinDot(Tail(parts))

\* String.prototype.trim()
RECURSIVE TrimLeft(_)
TrimLeft(s) == IF Len(s) > 0 /\ s[1] = " " THEN TrimLeft(Tail(s)) ELSE s

RECURSIVE TrimRight(_)
TrimRight(s) ==
    IF Len(s) > 0 /\ s[Len(s)] = " " THEN TrimRight(SubSeq(s, 1, Len(s) - 1)) ELSE s

Trim(s) == TrimRight(TrimLeft(s))

\* /^[a-z][a-z0-9_]*$/.test(s)
SnakeCaseTest(s) ==
    /\ Len(s) >= 1
    /\ s[1] \in LowerChars
    /\ \A i \in 2..Len(s) : s[i] \in LowerChars \cup DigitChars \cup {"_"}

\* decimal rendering of a non-negative integer in a template literal
RECURSIVE NumStr(_)
NumStr(n) ==
    LET digit(d) == CASE d = 0 -> "0" [] d = 1 -> "1" [] d = 2 -> "2" [] d = 3 -> "3"
                      [] d = 4 -> "4" [] d = 5 -> "5" [] d = 6 -> "6" [] d = 7 -> "7"
                      [] d = 8 -> "8" [] d = 9 -> "9"
    IN IF n < 10 THEN <<digit(n)>> ELSE NumStr(n \div 10) \o <<digit(n % 10)>>

----------------------------------------------------------------------------
(* JavaScript containers *)

\* Set<number>: insertion-ordered, no repetitions
SetHas(set, x) == \E i \in 1..Len(set) : set[i] = x
SetAdd(set, x) == IF SetHas(set, x) THEN set ELSE Append(set, x)
SetDelete(set, x) == SelectSeq(set, LAMBDA y : y # x)

\* new Set(array)
RECURSIVE SetFrom(_)
SetFrom(arr) ==
    IF Len(arr) = 0 THEN <<>>
    ELSE SetAdd(SetFrom(SubSeq(arr, 1, Len(arr) - 1)), arr[Len(arr)])

\* Array.from(set).sort((a, b) => a - b)
RECURSIVE SortAsc(_)
SortAsc(s) ==
    IF Len(s) = 0 THEN <<>>
    ELSE LET m == CHOOSE x \in Range(s) : \A y \in Range(s) : x <= y
         IN <<m>> \o SortAsc(SelectSeq(s, LAMBDA y : y # m))

\* the value of a string of decimal digits
RECURSIVE DigitsValue(_)
DigitsValue(s) ==
    IF Len(s) = 0 THEN 0
    ELSE 10 * DigitsValue(SubSeq(s, 1, Len(s) - 1))
         + (CHOOSE d \in 0..9 : NumStr(d) = <<s[Len(s)]>>)

\* is the property key an array index: the canonical decimal form of an
\* integer (keys of up to nine characters, all below 2^32 - 1)
IsArrayIndex(k) ==
    /\ Len(k) \in 1..9
    /\ \A i \in 1..Len(k) : k[i] \in DigitChars
    /\ NumStr(DigitsValue(k)) = k

\* the place of a new key in the property order of an object: array indices
\* come first in ascending order, the other keys follow in insertion order
KeyPosition(obj, k) ==
    IF IsArrayIndex(k)
    THEN 1 + Cardinality({i \in 1..Len(obj) :
                             /\ IsArrayIndex(obj[i].name)
                             /\ DigitsValue(obj[i].name) < DigitsValue(k)})
    ELSE Len(obj) + 1

\* an object used as a dictionary: its entries, each with a "name" key, in
\* the property order that Object.entries and Object.keys follow
ObjHas(obj, k) == \E i \in 1..Len(obj) : obj[i].name = k
ObjIndex(obj, k) == CHOOSE i \in 1..Len(obj) : obj[i].name = k
ObjGet(obj, k) == obj[ObjIndex(obj, k)]
ObjDelete(obj, k) == SelectSeq(obj, LAMBDA e : e.name # k)
\* { [name]: entry } without the spread of the object
ObjPut_Alone(obj, e) == <<e>>

\* { ...obj, [name]: entry }, and obj[name] = entry on an object being filled
ObjPut(obj, e) ==
    IF ObjHas(obj, e.name) THEN [obj EXCEPT ![ObjIndex(obj, e.name)] = e]
    ELSE LET at == KeyPosition(obj, e.name) IN
         SubSeq(obj, 1, at - 1) \o <<e>> \o SubSeq(obj, at, Len(obj))

----------------------------------------------------------------------------
(* The model store: pure parts of its actions *)

Truthy(str) == Len(str) = 1 /\ Len(str[1]) > 0   \* a nullable string in a condition

\* loadModel, first loop: group the named faces by the part before the first "."
RECURSIVE FeatureGroups(_)
FeatureGroups(faces) ==
    IF Len(faces) = 0 THEN <<>>
    ELSE LET prev == FeatureGroups(SubSeq(faces, 1, Len(faces) - 1))
             face == faces[Len(faces)]
         IN IF Truthy(face.step_name)
            THEN LET parts == SplitDot(face.step_name[1])
                     featureName == parts[1]
                     subName == IF Len(parts) > 1 THEN Some(JoinDot(Tail(parts))) ELSE None
                     m == [face_id |-> face.id, sub_name |-> subName]
                 IN IF ObjHas(prev, featureName)
                    THEN [prev EXCEPT ![ObjIndex(prev, featureName)].members = Append(@, m)]
                    ELSE ObjPut(prev, [name |-> featureName, members |-> <<m>>])
            ELSE prev

\* loadModel, second loop: one feature per group, colors in entry order
ImportedFeatures(groups) ==
    [i \in 1..Len(groups) |->
        [name |-> groups[i].name,
         faces |-> groups[i].members,
         color |-> (i - 1) % FEATURE_COLORS_length]]

MemberIds(feature) == {feature.faces[j].face_id : j \in 1..Len(feature.faces)}

\* loadModel, second loop: faceToFeature[m.face_id] = name, later writes win
ImportedIndex(feats) ==
    LET ids == UNION {MemberIds(feats[i]) : i \in 1..Len(feats)}
        last(id) == CHOOSE i \in 1..Len(feats) :
                        /\ id \in MemberIds(feats[i])
                        /\ \A j \in (i + 1)..Len(feats) : id \notin MemberIds(feats[j])
    IN [id \in ids |-> feats[last(id)].name]

\* selectFace with the additive branch only ever adding
selectFace_AddOnly(selected, multi, faceId, shift) ==
    IF shift \/ multi THEN SetAdd(selected, faceId)
    ELSE IF Len(selected) = 1 /\ SetHas(selected, faceId) THEN <<>>
         ELSE <<faceId>>

\* selectFace with the plain branch deselecting whenever the face is selected
selectFace_NoSizeTest(selected, multi, faceId, shift) ==
    IF shift \/ multi
    THEN IF SetHas(selected, faceId) THEN SetDelete(selected, faceId)
         ELSE SetAdd(selected, faceId)
    ELSE IF SetHas(selected, faceId) THEN <<>>
         ELSE <<faceId>>

\* selectFace: the new selection
selectFace(selected, multi, faceId, shift) ==
    IF shift \/ multi
    THEN IF SetHas(selected, faceId) THEN SetDelete(selected, faceId)
         ELSE SetAdd(selected, faceId)
    ELSE IF Len(selected) = 1 /\ SetHas(selected, faceId) THEN <<>>
         ELSE <<faceId>>

\* createFeature: `if (faceToFeature[fid])`, the name held for fid as a condition
FaceAssigned(index, fid) == fid \in DOMAIN index /\ Len(index[fid]) > 0

\* facesMetadata.find((f) => f.id === fid)?.surface_type ?? "unknown"
SurfaceTypeOf(metas, fid) ==
    IF \E i \in 1..Len(metas) : metas[i].id = fid
    THEN metas[CHOOSE i \in 1..Len(metas) :
                  metas[i].id = fid /\ \A j \in 1..(i - 1) : metas[j].id # fid].surface_type
    ELSE Unknown

\* the members of a new feature, taken in selection order without the sort
FeatureMembers_SelectionOrder(metas, selected) ==
    LET faceIds == selected
        t(k) == SurfaceTypeOf(metas, faceIds[k])
        typeCount(k) == Cardinality({j \in 1..Len(faceIds) : t(j) = t(k)})
        typeIndex(k) == Cardinality({j \in 1..k : t(j) = t(k)})
    IN IF Len(faceIds) = 1
       THEN <<[face_id |-> faceIds[1], sub_name |-> None]>>
       ELSE [k \in 1..Len(faceIds) |->
                [face_id |-> faceIds[k],
                 sub_name |-> IF typeCount(k) = 1 THEN Some(t(k))
                              ELSE Some(t(k) \o <<"_">> \o NumStr(typeIndex(k)))]]

\* createFeature: the members with their generated sub-names
FeatureMembers(metas, selected) ==
    LET faceIds == SortAsc(selected)
        t(k) == SurfaceTypeOf(metas, faceIds[k])
        typeCount(k) == Cardinality({j \in 1..Len(faceIds) : t(j) = t(k)})
        typeIndex(k) == Cardinality({j \in 1..k : t(j) = t(k)})
    IN IF Len(faceIds) = 1
       THEN <<[face_id |-> faceIds[1], sub_name |-> None]>>
       ELSE [k \in 1..Len(faceIds) |->
                [face_id |-> faceIds[k],
                 sub_name |-> IF typeCount(k) = 1 THEN Some(t(k))
                              ELSE Some(t(k) \o <<"_">> \o NumStr(typeIndex(k)))]]

\* newFaceToFeature[m.face_id] = name for every member
IndexWith(index, members, name) ==
    LET ids == {members[j].face_id : j \in 1..Len(members)}
    IN [id \in DOMAIN index \cup ids |-> IF id \in ids THEN name ELSE index[id]]

\* createFeature without the test for an empty selection
createFeature_NoEmptyTest(name, selected, feats, index, metas) ==
    LET unchanged(msg) == [selectedFaces |-> selected, features |-> feats,
                           faceToFeature |-> index, success |-> FALSE, error |-> msg]
    IN IF ObjHas(feats, name) THEN unchanged("Name already exists")
       ELSE IF \E i \in 1..Len(selected) : FaceAssigned(index, selected[i])
       THEN unchanged("Face already assigned")
       ELSE [selectedFaces |-> <<>>,
             features |-> ObjPut(feats, [name |-> name,
                                         faces |-> <<>>,
                                         color |-> Len(feats) % FEATURE_COLORS_length]),
             faceToFeature |-> index,
             success |-> TRUE, error |-> ""]

\* createFeature that counts the new feature when it picks the color
createFeature_CountsItself(name, selected, feats, index, metas) ==
    LET unchanged(msg) == [selectedFaces |-> selected, features |-> feats,
                           faceToFeature |-> index, success |-> FALSE, error |-> msg]
    IN IF Len(selected) = 0 THEN unchanged("No faces selected")
       ELSE IF ObjHas(feats, name) THEN unchanged("Name already exists")
       ELSE IF \E i \in 1..Len(selected) : FaceAssigned(index, selected[i])
       THEN unchanged("Face already assigned")
       ELSE LET members == FeatureMembers(metas, selected)
                colorIdx == Len(feats) + 1
                color == colorIdx % FEATURE_COLORS_length
            IN [selectedFaces |-> <<>>,
                features |-> ObjPut(feats, [name |-> name, faces |-> members, color |-> color]),
                faceToFeature |-> IndexWith(index, members, name),
                success |-> TRUE, error |-> ""]

\* createFeature: the result and the store fields it sets
createFeature(name, selected, feats, index, metas) ==
    LET unchanged(msg) == [selectedFaces |-> selected, features |-> feats,
                           faceToFeature |-> index, success |-> FALSE, error |-> msg]
    IN IF Len(selected) = 0 THEN unchanged("No faces selected")
       ELSE IF ObjHas(feats, name) THEN unchanged("Name already exists")
       ELSE IF \E i \in 1..Len(selected) : FaceAssigned(index, selected[i])
       THEN unchanged("Face already assigned")
       ELSE LET members == FeatureMembers(metas, selected)
                colorIdx == Len(feats)
                color == colorIdx % FEATURE_COLORS_length
            IN [selectedFaces |-> <<>>,
                features |-> ObjPut(feats, [name |-> name, faces |-> members, color |-> color]),
                faceToFeature |-> IndexWith(index, members, name),
                success |-> TRUE, error |-> ""]

\* deleteFeature: the store fields it sets
deleteFeature(name, feats, index) ==
    IF ~ObjHas(feats, name) THEN [features |-> feats, faceToFeature |-> index]
    ELSE LET gone == MemberIds(ObjGet(feats, name))
         IN [features |-> ObjDelete(feats, name),
             faceToFeature |-> [id \in DOMAIN index \ gone |-> index[id]]]

----------------------------------------------------------------------------
(* CadModel: the vertex color buffer.  A color is its three components in   *)
(* hundredths; a mesh is [numVertices, triangles, face_ids] with triangles  *)
(* the flat array of vertex indices (three per triangle, counted from 0)    *)
(* and face_ids the owning face of each triangle; a buffer is the sequence  *)
(* of the vertex colors, the color of vertex v at position v + 1.           *)

BASE_COLOR == <<60, 60, 65>>
HOVER_COLOR == <<50, 65, 80>>
SELECT_COLOR == <<30, 60, 100>>

\* colors.fill(0.6) of a newly built geometry
FILL_COLOR == <<60, 60, 60>>

FEATURE_COLORS ==
    <<<<90, 30, 30>>, <<30, 80, 30>>, <<30, 50, 90>>, <<90, 80, 20>>, <<70, 30, 80>>,
      <<20, 80, 80>>, <<90, 50, 20>>, <<50, 90, 30>>, <<90, 40, 70>>, <<40, 70, 90>>>>

\* the color stored in a feature (the model keeps its index in the palette)
FeatureColor(feature) == FEATURE_COLORS[feature.color + 1]

NumTriangles(mesh) == Len(mesh.face_ids)

\* useMemo geometry: a new Float32Array of numVertices buf, filled with 0.6
NewColors(mesh) == [v \in 1..mesh.numVertices |-> FILL_COLOR]

\* setTriColor(colors, indices, triIdx, color)
setTriColor(buf, indices, triIdx, color) ==
    LET i0 == indices[triIdx * 3 + 1]
        i1 == indices[triIdx * 3 + 2]
        i2 == indices[triIdx * 3 + 3]
    IN [buf EXCEPT ![i0 + 1] = color, ![i1 + 1] = color, ![i2 + 1] = color]

\* rebuildColors without the reset loop
ResetColors_Keep(buf) == buf

\* rebuildColors, "Reset all to base"
ResetColors(buf) == [v \in 1..Len(buf) |-> BASE_COLOR]

\* rebuildColors, "Apply feature buf": triangles triIdx .. last in turn
RECURSIVE ApplyFeatureColors(_, _, _, _, _)
ApplyFeatureColors(buf, mesh, feats, index, triIdx) ==
    IF triIdx >= NumTriangles(mesh) THEN buf
    ELSE LET faceId == mesh.face_ids[triIdx + 1]
             painted == /\ FaceAssigned(index, faceId)
                        /\ ObjHas(feats, index[faceId])
         IN ApplyFeatureColors(
                IF painted
                THEN setTriColor(buf, mesh.triangles, triIdx,
                                 FeatureColor(ObjGet(feats, index[faceId])))
                ELSE buf,
                mesh, feats, index, triIdx + 1)

\* the inner loop of "Apply hover" and "Apply selection": every triangle of
\* face faceId, from triIdx on, gets the color
RECURSIVE ApplyFaceColor(_, _, _, _, _)
ApplyFaceColor(buf, mesh, faceId, color, triIdx) ==
    IF triIdx >= NumTriangles(mesh) THEN buf
    ELSE ApplyFaceColor(
             IF mesh.face_ids[triIdx + 1] = faceId
             THEN setTriColor(buf, mesh.triangles, triIdx, color)
             ELSE buf,
             mesh, faceId, color, triIdx + 1)

\* rebuildColors, "Apply selection": for (const selId of selectedFaces)
RECURSIVE ApplySelection(_, _, _)
ApplySelection(buf, mesh, selected) ==
    IF Len(selected) = 0 THEN buf
    ELSE ApplySelection(ApplyFaceColor(buf, mesh, selected[1], SELECT_COLOR, 0),
                        mesh, Tail(selected))

\* rebuildColors with the hover pass before the feature colors
rebuildColors_HoverUnderFeatures(buf, mesh, selected, hovered, feats, index, visible) ==
    LET base == ResetColors(buf)
        hover == IF hovered >= 0 /\ ~SetHas(selected, hovered)
                 THEN ApplyFaceColor(base, mesh, hovered, HOVER_COLOR, 0)
                 ELSE base
        featured == IF visible THEN ApplyFeatureColors(hover, mesh, feats, index, 0)
                    ELSE hover
    IN ApplySelection(featured, mesh, selected)

\* rebuildColors with the selection pass before the hover pass
rebuildColors_SelectionFirst(buf, mesh, selected, hovered, feats, index, visible) ==
    LET base == ResetColors(buf)
        featured == IF visible THEN ApplyFeatureColors(base, mesh, feats, index, 0)
                    ELSE base
        picked == ApplySelection(featured, mesh, selected)
    IN IF hovered >= 0
       THEN ApplyFaceColor(picked, mesh, hovered, HOVER_COLOR, 0)
       ELSE picked

\* rebuildColors: the buffer after the rebuild, buf being the buffer before
rebuildColors(buf, mesh, selected, hovered, feats, index, visible) ==
    LET base == ResetColors(buf)
        featured == IF visible THEN ApplyFeatureColors(base, mesh, feats, index, 0)
                    ELSE base
        hover == IF hovered >= 0 /\ ~SetHas(selected, hovered)
                 THEN ApplyFaceColor(featured, mesh, hovered, HOVER_COLOR, 0)
                 ELSE featured
    IN ApplySelection(hover, mesh, selected)

----------------------------------------------------------------------------
(* MeasurementDisplay.  A number is an exact fraction <<numerator,           *)
(* denominator>> in lowest terms with a positive denominator; a vector is    *)
(* the triple of its components.  Math.sqrt is exact on squares of fractions *)
(* and cut to three decimals elsewhere; Math.acos and Math.asin, which the   *)
(* code only uses followed by the conversion to degrees, are tabulated in    *)
(* degrees for the cosines and sines that the modelled faces produce.  A     *)
(* measurement is <<label, digits, unit>>: the label before the colon, the   *)
(* digits toFixed prints with the decimal point left out, and the unit.      *)

Abs(n) == IF n < 0 THEN -n ELSE n

RECURSIVE GCD(_, _)
GCD(a, b) == IF b = 0 THEN a ELSE GCD(b, a % b)

Fraction(n, d) ==
    LET g == GCD(Abs(n), Abs(d)) IN
    IF d > 0 THEN <<n \div g, d \div g>> ELSE <<(-n) \div g, (-d) \div g>>

Whole(n) == <<n, 1>>

Plus(p, q) ==
    LET l == (p[2] \div GCD(p[2], q[2])) * q[2] IN
    Fraction(p[1] * (l \div p[2]) + q[1] * (l \div q[2]), l)

Minus(p, q) == Plus(p, <<-q[1], q[2]>>)
Times(p, q) == Fraction(p[1] * q[1], p[2] * q[2])
Less(p, q) == p[1] * q[2] < q[1] * p[2]

MathAbs(p) == <<Abs(p[1]), p[2]>>
MathMin(p, q) == IF Less(q, p) THEN q ELSE p

\* the largest r in lo..hi-1 with r * r <= n
RECURSIVE SqrtBetween(_, _, _)
SqrtBetween(n, lo, hi) ==
    IF hi - lo <= 1 THEN lo
    ELSE LET mid == (lo + hi) \div 2 IN
         IF mid * mid <= n THEN SqrtBetween(n, mid, hi) ELSE SqrtBetween(n, lo, mid)

FloorSqrt(n) == SqrtBetween(n, 0, IF n < 46340 THEN n + 1 ELSE 46341)

MathSqrt(p) ==
    LET rn == FloorSqrt(p[1])
        rd == FloorSqrt(p[2]) IN
    IF rn * rn = p[1] /\ rd * rd = p[2]
    THEN <<rn, rd>>
    ELSE Fraction(FloorSqrt((p[1] * 1000000) \div p[2]), 1000)

\* (Math.acos(x) * 180) / Math.PI
AcosDegrees(x) ==
    CASE x = <<0, 1>> -> <<90, 1>>
      [] x = <<45, 1013>> -> <<874539, 10000>>
      [] x = <<1012, 1013>> -> <<25461, 10000>>
      [] x = <<1, 1>> -> <<0, 1>>

\* (Math.asin(x) * 180) / Math.PI
AsinDegrees(x) ==
    CASE x = <<0, 1>> -> <<0, 1>>
      [] x = <<45, 1013>> -> <<25461, 10000>>
      [] x = <<1012, 1013>> -> <<874539, 10000>>
      [] x = <<1, 1>> -> <<90, 1>>

RECURSIVE TenTo(_)
TenTo(digits) == IF digits = 0 THEN 1 ELSE 10 * TenTo(digits - 1)

\* x.toFixed(digits) of a number x >= 0: the nearest multiple of 10^-digits,
\* the larger one of two equally near
toFixed(x, digits) == (2 * x[1] * TenTo(digits) + x[2]) \div (2 * x[2])

dot(a, b) == Plus(Plus(Times(a[1], b[1]), Times(a[2], b[2])), Times(a[3], b[3]))
mag(v) == MathSqrt(Plus(Plus(Times(v[1], v[1]), Times(v[2], v[2])), Times(v[3], v[3])))
sub(a, b) == <<Minus(a[1], b[1]), Minus(a[2], b[2]), Minus(a[3], b[3])>>
scale(v, k) == <<Times(v[1], k), Times(v[2], k), Times(v[3], k)>>

ParallelThreshold == <<999, 1000>>     \* 0.999
InPlaneThreshold == <<1, 100>>         \* 0.01

\* f.arc_angle > 180
ArcAbove(f, degrees) == f.arc_angle # None /\ f.arc_angle[1] > degrees

\* f.arc_angle >= 180, false for a missing arc angle
ArcAtLeast(f, degrees) == f.arc_angle # None /\ f.arc_angle[1] >= degrees

\* the guard of the one-face measurement, without its test of the arc angle
RadiusKnown_NoArcTest(f) == f.radius # None

\* f.radius != null && f.arc_angle != null
RadiusKnown(f) == f.radius # None /\ f.arc_angle # None

\* f.axis_direction && f.axis_point
AxisKnown(f) == f.axis_direction # None /\ f.axis_point # None

\* computeMeasurement, faces.length === 1
OneFace(f, lengthScale, lengthUnit) ==
    IF f.surface_type = Cylindrical /\ RadiusKnown(f)
    THEN IF ArcAtLeast(f, 180)
         THEN Some(<<"Diameter", toFixed(Times(Times(f.radius[1], Whole(2)), lengthScale), 3),
                     lengthUnit>>)
         ELSE Some(<<"Radius", toFixed(Times(f.radius[1], lengthScale), 3), lengthUnit>>)
    ELSE None

\* computeMeasurement, two planar faces
TwoPlanes(f1, f2, lengthScale, lengthUnit) ==
    LET n1 == f1.normal
        n2 == f2.normal
        dotVal == MathAbs(dot(n1, n2)) IN
    IF Less(ParallelThreshold, dotVal)
    THEN LET d == sub(f2.centroid, f1.centroid)
             dist == Times(MathAbs(dot(n1, d)), lengthScale) IN
         Some(<<"Distance", toFixed(dist, 3), lengthUnit>>)
    ELSE Some(<<"Angle", toFixed(AcosDegrees(MathMin(Whole(1), MathAbs(dot(n1, n2)))), 2),
                "deg">>)

\* computeMeasurement, two cylindrical faces
TwoCylinders(f1, f2, lengthScale, lengthUnit) ==
    IF ~AxisKnown(f1) \/ ~AxisKnown(f2)
    THEN None
    ELSE LET d1 == f1.axis_direction[1]
             d2 == f2.axis_direction[1]
             axisDot == MathAbs(dot(d1, d2)) IN
         IF Less(ParallelThreshold, axisDot)
         THEN LET v == sub(f2.axis_point[1], f1.axis_point[1])
                  proj == dot(v, d1)
                  perp == sub(v, scale(d1, proj))
                  dist == Times(mag(perp), lengthScale) IN
              Some(<<"Center distance", toFixed(dist, 3), lengthUnit>>)
         ELSE Some(<<"Axis angle", toFixed(AcosDegrees(MathMin(Whole(1), axisDot)), 2),
                     "deg">>)

\* computeMeasurement, a cylindrical and a planar face in either order
CylinderAndPlane(f1, f2, lengthScale, lengthUnit) ==
    LET cyl == IF f1.surface_type = Cylindrical THEN Some(f1)
               ELSE IF f2.surface_type = Cylindrical THEN Some(f2) ELSE None
        pln == IF f1.surface_type = Planar THEN Some(f1)
               ELSE IF f2.surface_type = Planar THEN Some(f2) ELSE None IN
    IF cyl # None /\ pln # None /\ AxisKnown(cyl[1])
    THEN LET axisDot == MathAbs(dot(cyl[1].axis_direction[1], pln[1].normal)) IN
         IF Less(axisDot, InPlaneThreshold)
         THEN LET v == sub(cyl[1].axis_point[1], pln[1].centroid)
                  dist == Times(MathAbs(dot(pln[1].normal, v)), lengthScale) IN
              Some(<<"Axis-to-plane", toFixed(dist, 3), lengthUnit>>)
         ELSE Some(<<"Axis-to-plane angle",
                     toFixed(AsinDegrees(MathMin(Whole(1), axisDot)), 2), "deg">>)
    ELSE None

\* computeMeasurement(faces, lengthScale, lengthUnit)
computeMeasurement(faces, lengthScale, lengthUnit) ==
    IF Len(faces) = 1
    THEN OneFace(faces[1], lengthScale, lengthUnit)
    ELSE IF Len(faces) = 2
    THEN LET f1 == faces[1]
             f2 == faces[2] IN
         IF f1.surface_type = Planar /\ f2.surface_type = Planar
         THEN TwoPlanes(f1, f2, lengthScale, lengthUnit)
         ELSE IF f1.surface_type = Cylindrical /\ f2.surface_type = Cylindrical
         THEN TwoCylinders(f1, f2, lengthScale, lengthUnit)
         ELSE CylinderAndPlane(f1, f2, lengthScale, lengthUnit)
    ELSE None

\* Array.from(selectedFaces).map(find).filter(defined): the selected faces
\* that the metadata knows, in selection order
FoundFaces(selected, metas) ==
    LET RECURSIVE Found(_)
        Found(i) ==
            IF i > Len(selected) THEN <<>>
            ELSE LET hits == SelectSeq(metas, LAMBDA f : f.id = selected[i]) IN
                 (IF Len(hits) > 0 THEN <<hits[1]>> ELSE <<>>) \o Found(i + 1) IN
    Found(1)

\* MeasurementDisplay: the memoized measurement, None when nothing is rendered
MeasurementDisplay(selected, metas, info) ==
    IF info = None \/ Len(selected) = 0 \/ Len(selected) > 2
    THEN None
    ELSE LET faces == FoundFaces(selected, metas) IN
         IF Len(faces) = 0
         THEN None
         ELSE computeMeasurement(faces, info[1].length_scale, info[1].length_unit)

----------------------------------------------------------------------------
(* Inputs *)

NameA == <<"a">>
NameBad == <<"B", "a", "d", " ", "N", "a", "m", "e">>

\* hierarchical names a face can carry in the loaded file
StepNameChoices == {None, Some(<<"a">>), Some(<<"a", ".", "t">>), Some(<<".", "t">>)}

\* the `faces` argument of loadModel: 1..max faces with ids 1..n
ModelInputs(max, names, types) ==
    UNION {{[i \in 1..n |-> [step_name |-> nm[i], id |-> i, surface_type |-> ty[i]]] :
                ty \in [1..n -> types], nm \in [1..n -> names]} : n \in 1..max}

\* the mesh the CAD kernel sends with these faces: two triangles per face in a
\* strip, so that neighbouring faces share two vertices
Tessellate(faces) ==
    LET n == Len(faces) IN
    [face_ids |-> [t \in 1..(2 * n) |-> faces[((t - 1) \div 2) + 1].id],
     numVertices |-> 2 * n + 2,
     triangles |-> [k \in 1..(6 * n) |-> ((k - 1) \div 3) + ((k - 1) % 3)]]

\* a face with the geometry that the measurements read
MeasuredFace(id, shape) ==
    [step_name |-> None, id |-> id, surface_type |-> shape[1], arc_angle |-> shape[5],
     radius |-> shape[4], axis_direction |-> shape[6], axis_point |-> shape[7],
     normal |-> shape[2], centroid |-> shape[3]]

Conical == <<"c", "o", "n", "i", "c", "a", "l">>

Vector(x, y, z) == <<Whole(x), Whole(y), Whole(z)>>

\* a unit vector 2.55 degrees off the z axis: its cosine with the z axis is
\* 1012/1013 = 0.99901
Tilted == <<<<45, 1013>>, <<0, 1>>, <<1012, 1013>>>>

\* the faces of the measured part: <<surface type, normal, centroid, radius,
\* arc angle, axis direction, axis point>>
MeasuredShapes ==
    << <<Planar, Vector(0, 0, 1), Vector(0, 0, 0), None, None, None, None>>,
       <<Planar, Vector(0, 0, -1), Vector(1, 0, 5), None, None, None, None>>,
       <<Planar, Tilted, Vector(10, 0, 0), None, None, None, None>>,
       <<Planar, Vector(1, 0, 0), Vector(2, 0, 0), None, None, None, None>>,
       <<Cylindrical, Vector(1, 0, 0), Vector(2, 0, 1), Some(Whole(2)), Some(360),
         Some(Vector(0, 0, 1)), Some(Vector(0, 0, 0))>>,
       <<Cylindrical, Vector(0, 1, 0), Vector(3, 5, 1), Some(<<1, 2>>), Some(90),
         Some(Vector(0, 0, 1)), Some(Vector(3, 4, 0))>>,
       <<Cylindrical, Vector(0, 0, 1), Vector(0, 0, 2), Some(Whole(1)), None,
         Some(Vector(1, 0, 0)), Some(Vector(0, 0, 1))>>,
       <<Cylindrical, Vector(0, 1, 0), Vector(5, 5, 5), None, Some(180), None, None>>,
       <<Conical, Vector(0, 0, 1), Vector(4, 4, 4), Some(Whole(1)), Some(360),
         Some(Vector(0, 0, 1)), Some(Vector(4, 4, 0))>>,
       <<Cylindrical, Vector(0, 1, 0), Vector(0, 3, 0), Some(Whole(3)), Some(180),
         Some(Vector(0, 0, 1)), Some(Vector(0, 0, 0))>> >>

\* models made of faces of the measured part, ids 1..n: every single face,
\* every pair of faces, and every run of 3..max consecutive faces
MeasureInputs(max) ==
    UNION {{[i \in 1..n |-> MeasuredFace(i, MeasuredShapes[pick[i]])] :
                pick \in {p \in [1..n -> 1..Len(MeasuredShapes)] :
                              /\ \A i \in 1..n, j \in 1..n : i < j => p[i] < p[j]
                              /\ n > 2 => \A i \in 2..n : p[i] = p[i - 1] + 1}} :
           n \in 1..max}

\* face ids an agent may name; MaxFaces + 1 is the id of no face of any model
CmdIds == 1..(MaxFaces + 1)

\* face_ids of a select_faces command: absent, or a list of at most MaxCmdIds ids
CmdIdLists == {None} \cup {Some(l) : l \in UNION {[1..n -> CmdIds] : n \in 0..MaxCmdIds}}

\* name of a create_feature / delete_feature command
CmdNames == {None, Some(<<>>), Some(NameA), Some(NameBad)}

\* what the user may have typed into the feature name dialog
DialogTexts == {<<"a">>, <<" ", "a", " ">>, NameBad, <<" ">>}

CadCommand(action, face_ids, name) ==
    [name |-> name, face_ids |-> face_ids, action |-> action, type |-> "cad_command"]
SetDisplay(xray, wireframe, colorsOn, clip_plane) ==
    [colors |-> colorsOn, action |-> "set_display", type |-> "cad_command", xray |-> xray,
     wireframe |-> wireframe, clip_plane |-> clip_plane]
\* the `info` argument of loadModel
Millimetres == [length_scale |-> <<1, 1>>, length_unit |-> "mm"]

\* a model whose lengths are shown in centimetres
Centimetres == [length_scale |-> <<1, 10>>, length_unit |-> "cm"]

CadUpdate(faces) ==
    [faces |-> faces, mesh |-> Tessellate(faces), info |-> Millimetres, type |-> "cad_update"]

\* a fetch of /api/upload in flight: the faces its response will carry, and
\* whether a model has been loaded since the request was issued
UploadRequest(faces) == [faces |-> faces, outdated |-> FALSE]

\* the requests in flight once a model has been loaded
Superseded(requests) == {[r EXCEPT !.outdated = TRUE] : r \in requests}
ScreenshotRequest == [type |-> "screenshot_request"]
Chat(role, content) == [type |-> "chat", role |-> role, content |-> content]
System(content) == [type |-> "system", content |-> content]
Drawing == [action |-> "start", type |-> "drawing"]

\* the record of the handler that ran last
Call(op, id, additive, ids, name, result) ==
    [name |-> name, id |-> id, ids |-> ids, msg |-> None, success |-> result.success,
     error |-> result.error, op |-> op, additive |-> additive]

\* the record of a handler that ran for an inbound message
Handling(msg, call) == [call EXCEPT !.msg = Some(msg)]

Ok == [success |-> TRUE, error |-> ""]
NotCalled == [success |-> FALSE, error |-> ""]

----------------------------------------------------------------------------
(* Initial state: the store as created, no dialog, an empty log, no geometry *)

StoreInit ==
    /\ isLoaded = FALSE
    /\ meshData = None
    /\ facesMetadata = <<>>
    /\ modelInfo = None
    /\ pendingUploads = {}
    /\ selectedFaces = <<>>
    /\ hoveredFace = -1
    /\ multiSelectMode = FALSE
    /\ features = <<>>
    /\ faceToFeature = <<>>
    /\ xrayMode = FALSE
    /\ wireframeVisible = TRUE
    /\ colorsVisible = TRUE
    /\ gridPlane = Some("XZ")
    /\ clipPlane = None
    /\ clipOffset = 0
    /\ clipFlipped = FALSE
    /\ showDialog = FALSE
    /\ messages = <<>>
    /\ colors = None

\* the page as mounted: the effect of useWebSocket has called connect()
Init ==
    /\ StoreInit
    /\ connected = FALSE
    /\ wsState = "CONNECTING"
    /\ retryTimers = 0
    /\ retryTimeout = FALSE
    /\ cancelled = FALSE
    /\ staleSocket = "NONE"
    /\ waiting = FALSE
    /\ seen = 0
    /\ replyOwed = FALSE
    /\ lastCall = Call("init", 0, FALSE, <<>>, <<>>, Ok)

\* the page once the first socket has opened (Init followed by ws.onopen)
InitOpen ==
    /\ StoreInit
    /\ connected = TRUE
    /\ wsState = "OPEN"
    /\ retryTimers = 0
    /\ retryTimeout = FALSE
    /\ cancelled = FALSE
    /\ staleSocket = "NONE"
    /\ waiting = FALSE
    /\ seen = 0
    /\ replyOwed = FALSE
    /\ lastCall = Call("onopen", 0, FALSE, <<>>, <<>>, Ok)

\* CadModel after a state change: the geometry is built anew for a newly loaded
\* mesh, then the rebuildColors effect runs; without a mesh there is no geometry
Render(newMesh) ==
    colors' = IF meshData' = None THEN None
              ELSE Some(rebuildColors(IF newMesh \/ colors = None
                                      THEN NewColors(meshData'[1]) ELSE colors[1],
                                      meshData'[1], selectedFaces', hoveredFace',
                                      features', faceToFeature', colorsVisible'))

----------------------------------------------------------------------------
(* Store actions *)

\* loadModel that leaves hoveredFace out of its set({...})
loadModel_KeepsHover(mesh, faces, info) ==
    LET feats == ImportedFeatures(FeatureGroups(faces)) IN
    /\ isLoaded' = TRUE
    /\ meshData' = Some(mesh)
    /\ facesMetadata' = faces
    /\ modelInfo' = Some(info)
    /\ selectedFaces' = <<>>
    /\ features' = feats
    /\ faceToFeature' = ImportedIndex(feats)
    /\ clipPlane' = None
    /\ clipOffset' = 0
    /\ clipFlipped' = FALSE
    /\ UNCHANGED <<hoveredFace, multiSelectMode, displayVars>>

\* loadModel that also sets the grid plane back to its initial "XZ"
loadModel_ResetsGrid(mesh, faces, info) ==
    LET feats == ImportedFeatures(FeatureGroups(faces)) IN
    /\ isLoaded' = TRUE
    /\ meshData' = Some(mesh)
    /\ facesMetadata' = faces
    /\ modelInfo' = Some(info)
    /\ selectedFaces' = <<>>
    /\ hoveredFace' = -1
    /\ features' = feats
    /\ faceToFeature' = ImportedIndex(feats)
    /\ gridPlane' = Some("XZ")
    /\ clipPlane' = None
    /\ clipOffset' = 0
    /\ clipFlipped' = FALSE
    /\ UNCHANGED <<multiSelectMode, xrayMode, wireframeVisible, colorsVisible>>

\* loadModel(meshData, faces, info, filename)
loadModel(mesh, faces, info) ==
    LET feats == ImportedFeatures(FeatureGroups(faces)) IN
    /\ isLoaded' = TRUE
    /\ meshData' = Some(mesh)
    /\ facesMetadata' = faces
    /\ modelInfo' = Some(info)
    /\ selectedFaces' = <<>>
    /\ hoveredFace' = -1
    /\ features' = feats
    /\ faceToFeature' = ImportedIndex(feats)
    /\ clipPlane' = None
    /\ clipOffset' = 0
    /\ clipFlipped' = FALSE
    /\ UNCHANGED <<multiSelectMode, displayVars>>

\* clearModel()
ClearModel ==
    /\ isLoaded' = FALSE
    /\ meshData' = None
    /\ facesMetadata' = <<>>
    /\ modelInfo' = None
    /\ selectedFaces' = <<>>
    /\ hoveredFace' = -1
    /\ features' = <<>>
    /\ faceToFeature' = <<>>
    /\ lastCall' = Call("clearModel", 0, FALSE, <<>>, <<>>, Ok)
    /\ UNCHANGED <<pendingUploads, multiSelectMode, displayVars, clipVars, showDialog, messages,
                   transportVars>>
    /\ Render(FALSE)

\* Toolbar.uploadFile, when the response arrives before any other event: a
\* successful upload response is loaded
UploadDone(faces) ==
    /\ loadModel(Tessellate(faces), faces, Millimetres)
    /\ pendingUploads' = Superseded(pendingUploads)
    /\ lastCall' = Call("upload", 0, FALSE, <<>>, <<>>, Ok)
    /\ UNCHANGED <<showDialog, messages, transportVars>>
    /\ Render(TRUE)

\* Toolbar.uploadFile up to its await: the request is issued
UploadFile(faces) ==
    /\ Cardinality(pendingUploads) < MaxUploads
    /\ pendingUploads' = pendingUploads \cup {UploadRequest(faces)}
    /\ lastCall' = Call("uploadFile", 0, FALSE, <<>>, <<>>, Ok)
    /\ UNCHANGED <<isLoaded, facesMetadata, meshData, modelInfo, selectedFaces, hoveredFace,
                   multiSelectMode, featureVars, displayVars, clipVars, showDialog, messages,
                   transportVars>>
    /\ Render(FALSE)

\* Toolbar.uploadFile after its await: the response of a request has arrived,
\* and is loaded when it reports success
UploadResponse(request, success) ==
    /\ request \in pendingUploads
    /\ IF success
       THEN /\ loadModel(Tessellate(request.faces), request.faces, Millimetres)
            /\ pendingUploads' = Superseded(pendingUploads \ {request})
            /\ lastCall' = Handling(request, Call("uploadResponse", 0, FALSE, <<>>, <<>>, Ok))
            /\ Render(TRUE)
       ELSE /\ pendingUploads' = pendingUploads \ {request}
            /\ lastCall' = Handling(request,
                                    Call("uploadResponse", 0, FALSE, <<>>, <<>>, NotCalled))
            /\ UNCHANGED <<isLoaded, facesMetadata, meshData, modelInfo, selectedFaces,
                           hoveredFace, multiSelectMode, featureVars, displayVars, clipVars>>
            /\ Render(FALSE)
    /\ UNCHANGED <<showDialog, messages, transportVars>>

MetaIds == {facesMetadata[i].id : i \in 1..Len(facesMetadata)}

\* FaceListPanel.handleClick / CadModel.handleClick: a click on a face of the model
ClickFace(faceId, shift) ==
    /\ isLoaded
    /\ faceId \in MetaIds
    /\ selectedFaces' = selectFace(selectedFaces, multiSelectMode, faceId, shift)
    /\ lastCall' = Call("click", faceId, shift \/ multiSelectMode, <<>>, <<>>, Ok)
    /\ UNCHANGED <<modelVars, hoveredFace, multiSelectMode, featureVars, displayVars,
                   clipVars, showDialog, messages, transportVars>>
    /\ Render(FALSE)

\* Toolbar "Multi": toggleMultiSelect()
ToggleMultiSelect ==
    /\ isLoaded
    /\ multiSelectMode' = ~multiSelectMode
    /\ lastCall' = Call("toggleMultiSelect", 0, FALSE, <<>>, <<>>, Ok)
    /\ UNCHANGED <<modelVars, selectedFaces, hoveredFace, featureVars, displayVars,
                   clipVars, showDialog, messages, transportVars>>
    /\ Render(FALSE)

\* Toolbar "Clear Sel": clearSelection(), the button is disabled on an empty selection
ClearSelectionClick ==
    /\ isLoaded
    /\ Len(selectedFaces) > 0
    /\ selectedFaces' = <<>>
    /\ lastCall' = Call("clearSelection", 0, FALSE, <<>>, <<>>, Ok)
    /\ UNCHANGED <<modelVars, hoveredFace, multiSelectMode, featureVars, displayVars,
                   clipVars, showDialog, messages, transportVars>>
    /\ Render(FALSE)

\* CadModel.handlePointerMove over a face of the mesh, handlePointerOut (-1)
HoverFace(faceId) ==
    /\ isLoaded
    /\ faceId \in MetaIds \cup {-1}
    /\ faceId # hoveredFace
    /\ hoveredFace' = faceId
    /\ lastCall' = Call("hover", faceId, FALSE, <<>>, <<>>, Ok)
    /\ UNCHANGED <<modelVars, selectedFaces, multiSelectMode, featureVars, displayVars,
                   clipVars, showDialog, messages, transportVars>>
    /\ Render(FALSE)

\* Toolbar "Colors": setColors(!colorsVisible)
ToggleColors ==
    /\ isLoaded
    /\ colorsVisible' = ~colorsVisible
    /\ lastCall' = Call("setColors", 0, FALSE, <<>>, <<>>, Ok)
    /\ UNCHANGED <<modelVars, selectedFaces, hoveredFace, multiSelectMode, featureVars,
                   xrayMode, wireframeVisible, gridPlane, clipVars, showDialog, messages,
                   transportVars>>
    /\ Render(FALSE)

\* setGridPlane(plane)
GridPlaneSet(plane) ==
    /\ gridPlane' = IF gridPlane = plane THEN None ELSE plane
    /\ lastCall' = Call("setGridPlane", 0, FALSE, <<>>, <<>>, Ok)
    /\ UNCHANGED <<modelVars, selectedFaces, hoveredFace, multiSelectMode, featureVars,
                   xrayMode, wireframeVisible, colorsVisible, clipVars, showDialog,
                   messages, transportVars>>
    /\ Render(FALSE)

\* Toolbar "ClipXY" / "ClipYZ" / "ClipXZ": setClipPlane(p)
ClipPlaneClick(p) ==
    /\ isLoaded
    /\ clipPlane' = IF clipPlane = Some(p) THEN None ELSE Some(p)
    /\ clipOffset' = 0
    /\ clipFlipped' = FALSE
    /\ lastCall' = Call("setClipPlane", 0, FALSE, <<>>, <<>>, Ok)
    /\ UNCHANGED <<modelVars, selectedFaces, hoveredFace, multiSelectMode, featureVars,
                   displayVars, showDialog, messages, transportVars>>
    /\ Render(FALSE)

\* Toolbar "Flip", shown while a clip plane is set: flipClip()
FlipClipClick ==
    /\ isLoaded
    /\ clipPlane # None
    /\ clipFlipped' = ~clipFlipped
    /\ lastCall' = Call("flipClip", 0, FALSE, <<>>, <<>>, Ok)
    /\ UNCHANGED <<modelVars, selectedFaces, hoveredFace, multiSelectMode, featureVars,
                   displayVars, clipPlane, clipOffset, showDialog, messages, transportVars>>
    /\ Render(FALSE)

\* Toolbar clip offset slider, shown while a clip plane is set: setClipOffset(offset)
ClipOffsetChange(offset) ==
    /\ isLoaded
    /\ clipPlane # None
    /\ offset # clipOffset
    /\ clipOffset' = offset
    /\ lastCall' = Call("setClipOffset", 0, FALSE, <<>>, <<>>, Ok)
    /\ UNCHANGED <<modelVars, selectedFaces, hoveredFace, multiSelectMode, featureVars,
                   displayVars, clipPlane, clipFlipped, showDialog, messages, transportVars>>
    /\ Render(FALSE)

----------------------------------------------------------------------------
(* FeaturesPanel and FeatureNameDialog *)

\* "Create Feature" button, shown while something is selected
OpenDialog ==
    /\ isLoaded
    /\ Len(selectedFaces) > 0
    /\ ~showDialog
    /\ showDialog' = TRUE
    /\ lastCall' = Call("openDialog", 0, FALSE, <<>>, <<>>, Ok)
    /\ UNCHANGED <<modelVars, selectedFaces, hoveredFace, multiSelectMode, featureVars,
                   displayVars, clipVars, messages, transportVars>>
    /\ Render(FALSE)

\* onCancel
CancelDialog ==
    /\ isLoaded
    /\ showDialog
    /\ showDialog' = FALSE
    /\ lastCall' = Call("cancelDialog", 0, FALSE, <<>>, <<>>, Ok)
    /\ UNCHANGED <<modelVars, selectedFaces, hoveredFace, multiSelectMode, featureVars,
                   displayVars, clipVars, messages, transportVars>>
    /\ Render(FALSE)

\* FeatureNameDialog.handleConfirm: does the typed text reach onConfirm
DialogAccepts(text) == Len(Trim(text)) > 0 /\ SnakeCaseTest(Trim(text))

\* FeatureNameDialog.handleConfirm, then FeaturesPanel.handleCreateFeature
ConfirmDialog(text) ==
    /\ isLoaded
    /\ showDialog
    /\ IF DialogAccepts(text)
       THEN LET r == createFeature(Trim(text), selectedFaces, features, faceToFeature,
                                   facesMetadata)
            IN /\ features' = r.features
               /\ faceToFeature' = r.faceToFeature
               /\ selectedFaces' = r.selectedFaces
               /\ showDialog' = ~r.success
               /\ lastCall' = Call("dialogCreate", 0, FALSE, <<>>, Trim(text), r)
       ELSE /\ UNCHANGED <<featureVars, selectedFaces, showDialog>>
            /\ lastCall' = Call("dialogReject", 0, FALSE, <<>>, Trim(text), NotCalled)
    /\ UNCHANGED <<modelVars, hoveredFace, multiSelectMode, displayVars, clipVars, messages,
                   transportVars>>
    /\ Render(FALSE)

\* the "x" button of a listed feature: deleteFeature(name)
DeleteFeatureClick(name) ==
    /\ isLoaded
    /\ ObjHas(features, name)
    /\ LET r == deleteFeature(name, features, faceToFeature)
       IN features' = r.features /\ faceToFeature' = r.faceToFeature
    /\ lastCall' = Call("deleteClick", 0, FALSE, <<>>, name, Ok)
    /\ UNCHANGED <<modelVars, selectedFaces, hoveredFace, multiSelectMode, displayVars,
                   clipVars, showDialog, messages, transportVars>>
    /\ Render(FALSE)

\* FeaturesPanel.handleFeatureClick: the name of a listed feature is clicked
FeatureNameClick(name) ==
    /\ isLoaded
    /\ ObjHas(features, name)
    /\ LET faces == ObjGet(features, name).faces
       IN selectedFaces' = SetFrom([j \in 1..Len(faces) |-> faces[j].face_id])
    /\ lastCall' = Call("featureClick", 0, FALSE, <<>>, name, Ok)
    /\ UNCHANGED <<modelVars, hoveredFace, multiSelectMode, featureVars, displayVars,
                   clipVars, showDialog, messages, transportVars>>
    /\ Render(FALSE)

----------------------------------------------------------------------------
(* useWebSocket: the inbound message dispatcher *)

\* handleCadCommand, select_faces: selectFace(id, true) for each id in turn
RECURSIVE SelectFacesLoop(_, _, _)
SelectFacesLoop(selected, multi, ids) ==
    IF Len(ids) = 0 THEN selected
    ELSE SelectFacesLoop(selectFace(selected, multi, ids[1], TRUE), multi, Tail(ids))

\* store.setClipPlane(plane)
setClipPlane(plane) ==
    /\ clipPlane' = IF clipPlane = plane THEN None ELSE plane
    /\ clipOffset' = 0
    /\ clipFlipped' = FALSE

\* does a create_feature / delete_feature command pass `if (msg.name)`
NameGiven(name) == Truthy(name)

KnownActions ==
    {"select_faces", "clear_selection", "create_feature", "delete_feature", "set_display",
     "set_view"}

\* `switch (msg.action)` with a default label that clears the selection
ActionCase_DefaultClears(action) ==
    IF action \in KnownActions THEN action ELSE "clear_selection"

\* `switch (msg.action)`: the case label taken, "none" when no label matches
ActionCase(action) == IF action \in KnownActions THEN action ELSE "none"

\* handleCadCommand(msg); set_view only moves the camera
handleCadCommand(msg) ==
    CASE ActionCase(msg.action) = "select_faces" ->
            /\ selectedFaces' = IF msg.face_ids # None
                                THEN SelectFacesLoop(selectedFaces, multiSelectMode,
                                                     msg.face_ids[1])
                                ELSE selectedFaces
            /\ lastCall' = IF msg.face_ids # None
                           THEN Handling(msg, Call("select_faces", 0, TRUE,
                                                   msg.face_ids[1], <<>>, Ok))
                           ELSE Handling(msg, Call("select_faces_skipped", 0, TRUE, <<>>,
                                                   <<>>, NotCalled))
            /\ UNCHANGED <<modelVars, hoveredFace, multiSelectMode, featureVars,
                           displayVars, clipVars>>
      [] ActionCase(msg.action) = "clear_selection" ->
            /\ selectedFaces' = <<>>
            /\ lastCall' = Handling(msg, Call("clear_selection", 0, FALSE, <<>>, <<>>, Ok))
            /\ UNCHANGED <<modelVars, hoveredFace, multiSelectMode, featureVars,
                           displayVars, clipVars>>
      [] ActionCase(msg.action) = "create_feature" ->
            /\ IF NameGiven(msg.name)
               THEN LET r == createFeature(msg.name[1], selectedFaces, features,
                                           faceToFeature, facesMetadata)
                    IN /\ features' = r.features
                       /\ faceToFeature' = r.faceToFeature
                       /\ selectedFaces' = r.selectedFaces
                       /\ lastCall' = Handling(msg, Call("create_feature", 0, FALSE, <<>>,
                                                         msg.name[1], r))
               ELSE /\ UNCHANGED <<featureVars, selectedFaces>>
                    /\ lastCall' = Handling(msg, Call("create_feature_skipped", 0, FALSE,
                                                       <<>>, <<>>, NotCalled))
            /\ UNCHANGED <<modelVars, hoveredFace, multiSelectMode, displayVars, clipVars>>
      [] ActionCase(msg.action) = "delete_feature" ->
            /\ IF NameGiven(msg.name)
               THEN LET r == deleteFeature(msg.name[1], features, faceToFeature)
                    IN features' = r.features /\ faceToFeature' = r.faceToFeature
               ELSE UNCHANGED featureVars
            /\ lastCall' = IF NameGiven(msg.name)
                           THEN Handling(msg, Call("delete_feature", 0, FALSE, <<>>,
                                                   msg.name[1], Ok))
                           ELSE Handling(msg, Call("delete_feature_skipped", 0, FALSE, <<>>,
                                                   <<>>, NotCalled))
            /\ UNCHANGED <<modelVars, selectedFaces, hoveredFace, multiSelectMode,
                           displayVars, clipVars>>
      [] ActionCase(msg.action) = "set_display" ->
            /\ xrayMode' = IF msg.xray # None THEN msg.xray[1] ELSE xrayMode
            /\ wireframeVisible' = IF msg.wireframe # None THEN msg.wireframe[1]
                                   ELSE wireframeVisible
            /\ colorsVisible' = IF msg.colors # None THEN msg.colors[1] ELSE colorsVisible
            /\ IF msg.clip_plane # None THEN setClipPlane(msg.clip_plane[1])
               ELSE UNCHANGED clipVars
            /\ lastCall' = Handling(msg, Call("set_display", 0, FALSE, <<>>, <<>>, Ok))
            /\ UNCHANGED <<modelVars, selectedFaces, hoveredFace, multiSelectMode,
                           featureVars, gridPlane>>
      [] OTHER ->
            /\ lastCall' = Handling(msg, Call(msg.action, 0, FALSE, <<>>, <<>>, Ok))
            /\ UNCHANGED <<modelVars, selectedFaces, hoveredFace, multiSelectMode,
                           featureVars, displayVars, clipVars>>

\* useWebSocket: may this message be appended while the log is followed
LogRoom == Len(messages) < MaxLog

\* ws.onmessage with the return after handleCadCommand missing
ReachesLog_NoCommandReturn(msg) ==
    msg.type \notin {"screenshot_request", "cad_update"}

\* ws.onmessage: none of the three early returns is taken, setMessages is reached
ReachesLog(msg) ==
    msg.type \notin {"cad_command", "screenshot_request", "cad_update"}

\* ws.onmessage, cad_update: the arguments of loadModel, with the faces dropped
UpdateFaces_None(msg) == <<>>

\* ws.onmessage, cad_update: the arguments of loadModel
UpdateFaces(msg) == msg.faces
UpdateMesh(msg) == msg.mesh
UpdateInfo(msg) == msg.info

\* ws.onmessage: the handler
onmessage(msg) ==
    /\ IF msg.type = "cad_command"
       THEN handleCadCommand(msg)
       ELSE IF msg.type = "cad_update"
       THEN /\ loadModel(UpdateMesh(msg), UpdateFaces(msg), UpdateInfo(msg))
            /\ pendingUploads' = Superseded(pendingUploads)
            /\ lastCall' = Handling(msg, Call("cad_update", 0, FALSE, <<>>, <<>>, Ok))
       ELSE /\ lastCall' = Handling(msg, Call(msg.type, 0, FALSE, <<>>, <<>>, Ok))
            /\ UNCHANGED <<modelVars, selectedFaces, hoveredFace, multiSelectMode,
                           featureVars, displayVars, clipVars>>
    /\ IF ReachesLog(msg)
       THEN LogRoom /\ messages' = Append(messages, msg)
       ELSE UNCHANGED messages
    /\ UNCHANGED <<showDialog, hookVars>>
    /\ Render(msg.type = "cad_update")

\* a message event of the open socket
OnMessage(msg) ==
    /\ wsState = "OPEN"
    /\ onmessage(msg)
    /\ UNCHANGED panelVars

\* a message event of a socket that the cleanup has closed and whose close
\* event has not fired: the frame arrived before the peer answered the close
\* handshake.  The handler is still assigned to the socket.
MessageAfterClose(msg) ==
    /\ cancelled
    /\ wsState = "CLOSING"
    /\ connected
    /\ onmessage(msg)
    /\ UNCHANGED panelVars

----------------------------------------------------------------------------
(* useWebSocket: the reconnecting transport.  One socket is held in ws at a  *)
(* time: connect() runs at mount and from the reconnect timer, and a timer   *)
(* is only ever set by the close event of the socket in ws.                  *)

\* the state of the transport: Connected while the socket is open, Connecting
\* while an attempt is in progress or a reconnect is scheduled
TransportState ==
    IF wsState = "OPEN" THEN "Connected"
    ELSE IF wsState = "CONNECTING" \/ retryTimers > 0 THEN "Connecting"
    ELSE "Disconnected"

\* ws.onclose with the reconnect scheduled whether or not cancelled is set
Reschedules_Always(c) == TRUE

\* ws.onclose: `if (!cancelled)`
Reschedules(c) == ~c

\* cleanup without clearTimeout
clearTimeout_Nothing(timers, pending) == timers

\* clearTimeout(retryTimeout): the pending timers left
clearTimeout(timers, pending) == IF pending THEN timers - 1 ELSE timers

\* connect() that never creates a socket
connect_Never(state, c) == state

\* connect(): `if (cancelled) return; ws = new WebSocket(url)`, the readyState of ws
connect(state, c) == IF c THEN state ELSE "CONNECTING"

\* ws.close(): the readyState after the call
CloseCalled(state) == IF state \in {"CONNECTING", "OPEN"} THEN "CLOSING" ELSE state

\* ws.onopen
SocketOpens ==
    /\ wsState = "CONNECTING"
    /\ wsState' = "OPEN"
    /\ connected' = IF ~cancelled THEN TRUE ELSE connected
    /\ lastCall' = Call("onopen", 0, FALSE, <<>>, <<>>, Ok)
    /\ UNCHANGED <<modelVars, selectedFaces, hoveredFace, multiSelectMode, featureVars,
                   displayVars, clipVars, showDialog, messages, retryTimers, retryTimeout,
                   cancelled, staleSocket, panelVars>>
    /\ Render(FALSE)

\* ws.onclose: the socket closed, or the attempt failed (onerror does nothing)
SocketCloses ==
    /\ wsState \in {"CONNECTING", "OPEN", "CLOSING"}
    /\ Reschedules(cancelled) => retryTimers < MaxTimers
    /\ wsState' = "CLOSED"
    /\ connected' = FALSE
    /\ IF Reschedules(cancelled)
       THEN retryTimers' = retryTimers + 1 /\ retryTimeout' = TRUE
       ELSE UNCHANGED <<retryTimers, retryTimeout>>
    /\ lastCall' = Call("onclose", 0, FALSE, <<>>, <<>>, Ok)
    /\ UNCHANGED <<modelVars, selectedFaces, hoveredFace, multiSelectMode, featureVars,
                   displayVars, clipVars, showDialog, messages, cancelled, staleSocket,
                   waiting, seen>>
    /\ replyOwed' = FALSE
    /\ Render(FALSE)

\* a reconnect timer fires after its 2 seconds and runs connect(); held tells
\* whether it is the timer whose id retryTimeout holds
RetryTimerFires ==
    /\ \E held \in BOOLEAN :
          /\ IF held THEN retryTimeout
             ELSE retryTimers > (IF retryTimeout THEN 1 ELSE 0)
          /\ retryTimers' = retryTimers - 1
          /\ retryTimeout' = IF held THEN FALSE ELSE retryTimeout
    /\ wsState' = connect(wsState, cancelled)
    /\ lastCall' = IF cancelled
                   THEN Call("connect_cancelled", 0, FALSE, <<>>, <<>>, NotCalled)
                   ELSE Call("connect", 0, FALSE, <<>>, <<>>, Ok)
    /\ UNCHANGED <<modelVars, selectedFaces, hoveredFace, multiSelectMode, featureVars,
                   displayVars, clipVars, showDialog, messages, connected, cancelled,
                   staleSocket, panelVars>>
    /\ Render(FALSE)

\* the cleanup of the effect
Teardown ==
    /\ ~cancelled
    /\ cancelled' = TRUE
    /\ retryTimers' = clearTimeout(retryTimers, retryTimeout)
    /\ retryTimeout' = FALSE
    /\ wsState' = CloseCalled(wsState)
    /\ lastCall' = Call("teardown", 0, FALSE, <<>>, <<>>, Ok)
    /\ UNCHANGED <<modelVars, selectedFaces, hoveredFace, multiSelectMode, featureVars,
                   displayVars, clipVars, showDialog, messages, connected, staleSocket,
                   panelVars>>
    /\ Render(FALSE)

\* the effect runs again for a new url: the cleanup of the last run (cancelled
\* = true, clearTimeout, ws.close()), then a new closure with cancelled = false
\* and connect(); `connected` is the state of the hook and is kept.  The closed
\* socket of the last run becomes the stale socket.
Recreate ==
    /\ ~cancelled
    /\ staleSocket # "CLOSING"
    /\ staleSocket' = CloseCalled(wsState)
    /\ retryTimers' = clearTimeout(retryTimers, retryTimeout)
    /\ retryTimeout' = FALSE
    /\ cancelled' = FALSE
    /\ wsState' = connect(wsState, FALSE)
    /\ lastCall' = Call("recreate", 0, FALSE, <<>>, <<>>, Ok)
    /\ UNCHANGED <<modelVars, selectedFaces, hoveredFace, multiSelectMode, featureVars,
                   displayVars, clipVars, showDialog, messages, connected, panelVars>>
    /\ Render(FALSE)

\* ws.onclose of the stale socket: its closure has cancelled = true, so no
\* reconnect is scheduled, and setConnected(false) runs as for any socket
StaleSocketCloses ==
    /\ staleSocket = "CLOSING"
    /\ staleSocket' = "CLOSED"
    /\ connected' = FALSE
    /\ lastCall' = Call("stale_onclose", 0, FALSE, <<>>, <<>>, Ok)
    /\ UNCHANGED <<modelVars, selectedFaces, hoveredFace, multiSelectMode, featureVars,
                   displayVars, clipVars, showDialog, messages, wsState, retryTimers,
                   retryTimeout, cancelled, panelVars>>
    /\ Render(FALSE)

----------------------------------------------------------------------------
(* ChatPanel: the waiting state of the chat input.  The agent that answers  *)
(* belongs to one connection: when the socket closes, what it owed is lost. *)

\* last.content.includes("error"), for the contents that occur here
IncludesError(content) == content \in {"agent error"}

\* the waiting effect's tests of the last message of the log
ClearsWaiting(last) ==
    \/ last.type = "chat" /\ "role" \in DOMAIN last /\ last.role = "assistant"
    \/ last.type = "system" /\ "content" \in DOMAIN last /\ IncludesError(last.content)

\* ChatPanel.handleSubmit with a non-blank input; the form is disabled while
\* !connected || waiting.  sendMessage sends only on an open socket.
ChatSubmit ==
    /\ connected
    /\ ~waiting
    /\ LogRoom
    /\ waiting' = TRUE
    /\ replyOwed' = (replyOwed \/ wsState = "OPEN")
    /\ lastCall' = Call("chatSubmit", 0, FALSE, <<>>, <<>>, Ok)
    /\ UNCHANGED <<modelVars, selectedFaces, hoveredFace, multiSelectMode, featureVars,
                   displayVars, clipVars, showDialog, messages, hookVars, seen>>
    /\ Render(FALSE)

\* the effect on [messages]: it runs after a render that saw a changed log,
\* and looks at the last message only
WaitingEffect ==
    /\ seen # Len(messages)
    /\ seen' = Len(messages)
    /\ waiting' = IF ClearsWaiting(messages[Len(messages)]) THEN FALSE ELSE waiting
    /\ lastCall' = Call("waitingEffect", 0, FALSE, <<>>, <<>>, Ok)
    /\ UNCHANGED <<modelVars, selectedFaces, hoveredFace, multiSelectMode, featureVars,
                   displayVars, clipVars, showDialog, messages, hookVars, replyOwed>>
    /\ Render(FALSE)

\* the agent's answer arrives on the open socket
AssistantReplies ==
    /\ replyOwed
    /\ wsState = "OPEN"
    /\ onmessage(Chat("assistant", "text"))
    /\ replyOwed' = FALSE
    /\ UNCHANGED <<waiting, seen>>

----------------------------------------------------------------------------
(* Specification of the store: features and selection under UI and agent *)

\* uploaded files: every face unnamed or named ".t" (empty top-level group)
LoadInputs == ModelInputs(MaxNamed, {None, Some(<<".", "t">>)}, {Planar})

\* files sent with a cad_update: every face named "a"
UpdateInputs == ModelInputs(MaxNamed, {Some(<<"a">>)}, {Planar})

\* select_faces commands naming at most one face of such a file, and clear_selection
ShortSelectionCommands ==
    {CadCommand("select_faces", Some(l), None) :
        l \in UNION {[1..n -> 1..MaxNamed] : n \in 0..1}}
        \cup {CadCommand("clear_selection", None, None)}

FeatureCommands ==
    {CadCommand(a, None, n) : a \in {"create_feature", "delete_feature"}, n \in CmdNames}

Upload == \E faces \in LoadInputs : UploadDone(faces)
Click == \E id \in MetaIds, shift \in BOOLEAN : ClickFace(id, shift)
Confirm == \E text \in DialogTexts : ConfirmDialog(text)
DeleteClick == \E i \in 1..Len(features) : DeleteFeatureClick(features[i].name)
NameClick == \E i \in 1..Len(features) : FeatureNameClick(features[i].name)
Command == \E msg \in ShortSelectionCommands \cup FeatureCommands : OnMessage(msg)
Update == \E faces \in UpdateInputs : OnMessage(CadUpdate(faces))

Next ==
    \/ Upload
    \/ ClearModel
    \/ Click
    \/ ClearSelectionClick
    \/ OpenDialog
    \/ CancelDialog
    \/ Confirm
    \/ DeleteClick
    \/ NameClick
    \/ Command
    \/ Update

Spec == InitOpen /\ [][Next]_vars

----------------------------------------------------------------------------
(* Specification of the selection engine alone: models without named faces *)

PlainInputs == ModelInputs(MaxFaces, {None}, {Planar})

SelectionCommands ==
    {CadCommand("select_faces", l, None) : l \in CmdIdLists}
        \cup {CadCommand("clear_selection", None, None)}

UploadPlain == \E faces \in PlainInputs : UploadDone(faces)
UpdatePlain == \E faces \in PlainInputs : OnMessage(CadUpdate(faces))
SelectionCommand == \E msg \in SelectionCommands : OnMessage(msg)

NextSelection ==
    \/ UploadPlain
    \/ UpdatePlain
    \/ ClearModel
    \/ Click
    \/ ToggleMultiSelect
    \/ ClearSelectionClick
    \/ SelectionCommand

SpecSelection == InitOpen /\ [][NextSelection]_vars

----------------------------------------------------------------------------
(* Specification of the dispatcher and its message log *)

LogMessages ==
    {Chat("assistant", "text"), System("text"), Drawing, ScreenshotRequest,
     CadUpdate(<<[step_name |-> None, id |-> 1, surface_type |-> Planar]>>),
     CadCommand("clear_selection", None, None),
     CadCommand("select_faces", Some(<<1>>), None),
     CadCommand("create_feature", None, Some(NameA)),
     CadCommand("delete_feature", None, Some(NameA))}

Receive == \E msg \in LogMessages : OnMessage(msg)

NextLog == Receive

SpecLog == InitOpen /\ [][NextLog]_vars

----------------------------------------------------------------------------
(* Specification of the transport: socket events, the reconnect timer, the  *)
(* cleanup, and messages arriving while the socket is open                  *)

KnownTypes == {"chat", "system", "drawing", "cad_command", "cad_update", "screenshot_request"}

\* a message of a type the protocol does not know
Ping == [type |-> "ping"]

\* a cad_command with an action the protocol does not know
Rotate == CadCommand("rotate", None, None)

TransportMessages ==
    {Chat("assistant", "text"), Ping, Rotate,
     CadCommand("select_faces", Some(<<1>>), None),
     CadUpdate(<<[step_name |-> None, id |-> 1, surface_type |-> Planar]>>)}

ReceiveOnTransport == \E msg \in TransportMessages : OnMessage(msg)

NextTransport ==
    \/ SocketOpens
    \/ SocketCloses
    \/ RetryTimerFires
    \/ Teardown
    \/ ReceiveOnTransport

SpecTransport == Init /\ [][NextTransport]_vars

\* the same, with every pending reconnect timer firing in the end
SpecTransportFair == Init /\ [][NextTransport]_vars /\ WF_vars(RetryTimerFires)

----------------------------------------------------------------------------
(* Specification of the transport whose url changes: the effect is run      *)
(* again, and the sockets it closed still fire their events                 *)

LateMessage == \E msg \in TransportMessages : MessageAfterClose(msg)

NextRecreate ==
    \/ SocketOpens
    \/ SocketCloses
    \/ RetryTimerFires
    \/ Recreate
    \/ StaleSocketCloses
    \/ Teardown
    \/ ReceiveOnTransport
    \/ LateMessage

SpecRecreate == Init /\ [][NextRecreate]_vars

----------------------------------------------------------------------------
(* Specification of loading: uploads and cad_update messages arriving over  *)
(* a model with a selection, a hover face, features and changed display     *)

\* the slider positions tried besides 0
ClipOffsets == {0, 50}

CreateA == CadCommand("create_feature", None, Some(NameA))

\* set_display commands: every flag away from its initial value, and back
DisplayCommands ==
    {SetDisplay(Some(TRUE), Some(FALSE), Some(FALSE), None),
     SetDisplay(Some(FALSE), Some(TRUE), Some(TRUE), None)}

Hover == \E id \in MetaIds \cup {-1} : HoverFace(id)
PlainClick == \E id \in MetaIds : ClickFace(id, FALSE)
GridXY == GridPlaneSet(Some("XY"))
ClipXY == ClipPlaneClick("XY")
ClipOffsetSlide == \E offset \in ClipOffsets : ClipOffsetChange(offset)
CreateCommand == OnMessage(CreateA)
DisplayCommand == \E msg \in DisplayCommands : OnMessage(msg)

NextLoad ==
    \/ Upload
    \/ Update
    \/ PlainClick
    \/ Hover
    \/ CreateCommand
    \/ DisplayCommand
    \/ GridXY
    \/ ClipXY
    \/ FlipClipClick
    \/ ClipOffsetSlide

SpecLoad == InitOpen /\ [][NextLoad]_vars

----------------------------------------------------------------------------
(* Specification of the color buffer: the mesh is recolored after every     *)
(* change of selection, hover, features and color visibility                *)

NameB == <<"b">>

\* loaded files whose faces are unnamed or named "a"
ColorInputs == ModelInputs(MaxFaces, {None, Some(NameA)}, {Planar})

CreateB == CadCommand("create_feature", None, Some(NameB))

UploadColored == \E faces \in ColorInputs : UploadDone(faces)
CreateBCommand == OnMessage(CreateB)

NextColors ==
    \/ UploadColored
    \/ Click
    \/ Hover
    \/ ToggleColors
    \/ CreateBCommand

SpecColors == InitOpen /\ [][NextColors]_vars

----------------------------------------------------------------------------
(* Specification of the display commands: set_display with and without a    *)
(* clip plane, next to the clip controls of the toolbar                     *)

\* set_display commands that carry xray, a clip plane (a plane name or null),
\* both or neither
ClipCommands ==
    {SetDisplay(x, None, None, c) :
         x \in {None, Some(TRUE), Some(FALSE)},
         c \in {None, Some(None), Some(Some("XY")), Some(Some("YZ"))}}

ClipCommand == \E msg \in ClipCommands : OnMessage(msg)

NextDisplay ==
    \/ UploadPlain
    \/ ClipCommand
    \/ FlipClipClick
    \/ ClipOffsetSlide
    \/ GridXY

SpecDisplay == InitOpen /\ [][NextDisplay]_vars

----------------------------------------------------------------------------
(* Specification of the agent's create_feature tool: a select_faces command *)
(* followed by a create_feature command, between the clicks of the user     *)

\* select_faces commands with one to MaxCmdIds ids of faces of the model
AgentSelections ==
    {CadCommand("select_faces", Some(l), None) :
         l \in UNION {[1..n -> 1..MaxFaces] : n \in 1..MaxCmdIds}}

AgentSelect == \E msg \in AgentSelections : OnMessage(msg)

NextAgent ==
    \/ UploadPlain
    \/ PlainClick
    \/ AgentSelect
    \/ CreateCommand

SpecAgent == InitOpen /\ [][NextAgent]_vars

----------------------------------------------------------------------------
(* Specification of the chat: the user sends, the agent answers, other      *)
(* messages are logged, and the socket closes and is opened again           *)

\* messages that are logged and do not end the waiting
LoggedMessages == {Drawing, System("note")}

\* a message that the server sends when it owes no answer
OtherMessage ==
    /\ ~replyOwed
    /\ \E msg \in LoggedMessages : OnMessage(msg)

NextChat ==
    \/ ChatSubmit
    \/ AssistantReplies
    \/ OtherMessage
    \/ WaitingEffect
    \/ SocketCloses
    \/ RetryTimerFires
    \/ SocketOpens

SpecChat == InitOpen /\ [][NextChat]_vars

\* the same, where the effect runs in the end, the agent answers in the end
\* while the socket stays open, and a closed socket is opened again
SpecChatFair ==
    /\ SpecChat
    /\ WF_vars(WaitingEffect)
    /\ WF_vars(AssistantReplies)
    /\ WF_vars(RetryTimerFires)
    /\ WF_vars(SocketOpens)

----------------------------------------------------------------------------
(* Specification of the measurement: parts with planar, cylindrical and      *)
(* conical faces are uploaded and their faces selected in every order        *)

UploadMeasured == \E faces \in MeasureInputs(MaxMeasured) : UploadDone(faces)
UpdateMeasured ==
    \E faces \in MeasureInputs(MaxMeasured) :
        OnMessage([CadUpdate(faces) EXCEPT !.info = Centimetres])
NextMeasure ==
    \/ UploadMeasured
    \/ UpdateMeasured
    \/ Click

SpecMeasure == InitOpen /\ [][NextMeasure]_vars

\* the measured parts with the agent selecting: a select_faces command may
\* name an id that no face of the loaded part has
NextMeasureAgent ==
    \/ UploadMeasured
    \/ AgentSelect

SpecMeasureAgent == InitOpen /\ [][NextMeasureAgent]_vars

----------------------------------------------------------------------------
(* Specification of uploading: requests are issued and their responses       *)
(* arrive in any order, between cad_update messages and selections           *)

UploadStart == \E faces \in PlainInputs : UploadFile(faces)
UploadEnd == \E request \in pendingUploads, success \in BOOLEAN : UploadResponse(request, success)

NextUpload ==
    \/ UploadStart
    \/ UploadEnd
    \/ UpdatePlain
    \/ PlainClick

SpecUpload == InitOpen /\ [][NextUpload]_vars

----------------------------------------------------------------------------
(* Specification of the import: models whose faces carry hierarchical names  *)
(* are uploaded                                                              *)

\* names as a STEP file may carry them: sub-named faces of one group, a face
\* named after its group alone, and a group whose name is a number
ImportNames ==
    {None, Some(<<"b", ".", "t">>), Some(<<"b", ".", "u">>), Some(<<"h">>), Some(<<"1">>)}

ImportInputs == ModelInputs(MaxImported, ImportNames, {Planar})

UploadImported == \E faces \in ImportInputs : UploadDone(faces)

NextImport == UploadImported

SpecImport == InitOpen /\ [][NextImport]_vars

----------------------------------------------------------------------------
(* Specification of the palette: models that bring up to as many features    *)
(* as the palette has colors, one more feature created, features deleted     *)

NameZ == <<"z">>

PaletteNames ==
    <<NameA, NameB, <<"c">>, <<"d">>, <<"e">>, <<"i">>, <<"k">>, <<"l">>, <<"n">>, <<"o">>>>

\* n faces named after n different groups, and one face without a name
PaletteInputs ==
    {[i \in 1..(n + 1) |->
         [step_name |-> IF i <= n THEN Some(PaletteNames[i]) ELSE None,
          id |-> i, surface_type |-> Planar]] : n \in 0..FEATURE_COLORS_length}

PaletteCommands ==
    {CadCommand("create_feature", None, Some(NameZ)),
     CadCommand("delete_feature", None, Some(NameA)),
     CadCommand("delete_feature", None, Some(NameZ))}

UploadPalette == \E faces \in PaletteInputs : UploadDone(faces)
PaletteCommand == \E msg \in PaletteCommands : OnMessage(msg)

NextPalette ==
    \/ UploadPalette
    \/ PlainClick
    \/ PaletteCommand

SpecPalette == InitOpen /\ [][NextPalette]_vars

----------------------------------------------------------------------------
(* Specification of the sub-names: planar and cylindrical faces are selected *)
(* in every order and made a feature                                         *)

TypedInputs == ModelInputs(MaxTyped, {None}, {Planar, Cylindrical})

UploadTyped == \E faces \in TypedInputs : UploadDone(faces)
ShiftClick == \E id \in MetaIds : ClickFace(id, TRUE)

NextSubNames ==
    \/ UploadTyped
    \/ ShiftClick
    \/ CreateCommand

SpecSubNames == InitOpen /\ [][NextSubNames]_vars

----------------------------------------------------------------------------
(* Claims *)

CreateOps == {"create_feature", "dialogCreate"}

\* the positions <<feature, member>> of all members of all features
AllMembers == UNION {{<<i, j>> : j \in 1..Len(features[i].faces)} : i \in 1..Len(features)}

\* C1: in every reachable state no face id appears in the member lists of two
\* different features, nor twice in the member list of one feature.
C1_FaceInOneFeature ==
    \A p, q \in AllMembers :
        p # q => features[p[1]].faces[p[2]].face_id # features[q[1]].faces[q[2]].face_id

\* C2: in every reachable state faceToFeature[f] = n exactly when f is a member
\* of the feature named n.
C2_IndexInSync ==
    /\ \A f \in DOMAIN faceToFeature :
          /\ ObjHas(features, faceToFeature[f])
          /\ f \in MemberIds(ObjGet(features, faceToFeature[f]))
    /\ \A i \in 1..Len(features) :
          \A f \in MemberIds(features[i]) :
              f \in DOMAIN faceToFeature /\ faceToFeature[f] = features[i].name

\* C3: a createFeature call made while some selected face id appears in
\* faceToFeature returns success = false and leaves features, faceToFeature and
\* the selection unchanged.
C3_OwnedFaceRejected ==
    [][(/\ lastCall'.op \in CreateOps
        /\ \E i \in 1..Len(selectedFaces) : selectedFaces[i] \in DOMAIN faceToFeature)
       => (/\ ~lastCall'.success
           /\ UNCHANGED <<features, faceToFeature, selectedFaces>>)]_vars

\* C4: in every reachable state every selected id is the id of a FaceMetadata
\* entry of the loaded model.
C4_SelectionExists == Range(selectedFaces) \subseteq MetaIds

\* C5: from every reachable selection S and for every face id, two consecutive
\* selectFace(id, true) calls give a selection with the same elements as S.
C5_ToggleTwice ==
    \A id \in CmdIds :
        Range(selectFace(selectFace(selectedFaces, multiSelectMode, id, TRUE),
                         multiSelectMode, id, TRUE)) = Range(selectedFaces)

\* a select_faces command naming face 1 twice has run on a selection holding
\* faces 1 and 2: face 1 was deselected and selected again
C5_Witness ==
    /\ lastCall.op = "select_faces"
    /\ lastCall.ids = <<1, 1>>
    /\ selectedFaces = <<2, 1>>

\* C6: a click with additive = false on face id empties the selection when the
\* selection was exactly {id}, and otherwise makes it exactly {id}.
C6_PlainClick ==
    [][(lastCall'.op = "click" /\ ~lastCall'.additive)
       => selectedFaces' = IF Range(selectedFaces) = {lastCall'.id} THEN <<>>
                           ELSE <<lastCall'.id>>]_vars

\* a plain click has just emptied the selection (click on the sole selected face)
C6_Witness ==
    /\ lastCall.op = "click"
    /\ ~lastCall.additive
    /\ selectedFaces = <<>>

\* C7: createFeature called with an empty selection, or with the name of an
\* existing feature, returns success = false with a message and leaves features,
\* faceToFeature and the selection unchanged.
C7_EmptyOrDuplicateRejected ==
    [][(/\ lastCall'.op \in CreateOps
        /\ (Len(selectedFaces) = 0 \/ ObjHas(features, lastCall'.name)))
       => (/\ ~lastCall'.success
           /\ lastCall'.error # ""
           /\ UNCHANGED <<features, faceToFeature, selectedFaces>>)]_vars

\* a create_feature command has just been refused for an existing name while
\* faces were selected
C7_Witness ==
    /\ lastCall.op = "create_feature"
    /\ ~lastCall.success
    /\ lastCall.error = "Name already exists"
    /\ Len(selectedFaces) > 0
    /\ ObjHas(features, lastCall.name)

\* C8: a createFeature whose name does not match the snake_case pattern fails
\* and creates no feature, through the dialog and through the create_feature
\* command alike.
C8_BadNameRejected ==
    [][(/\ lastCall'.op \in CreateOps \cup {"dialogReject"}
        /\ ~SnakeCaseTest(lastCall'.name))
       => (~lastCall'.success /\ UNCHANGED <<features, faceToFeature>>)]_vars

\* C9: after a select_faces command with id list L the selection is exactly the
\* set of ids in L.
C9_SelectReplaces ==
    [][lastCall'.op = "select_faces"
       => Range(selectedFaces') = Range(lastCall'.ids)]_vars

\* C10: handling a cad_command, cad_update or screenshot_request message leaves
\* the message log unchanged, and the log never contains a message of these types.
C10_LogHasNoCommands ==
    [][/\ (/\ lastCall'.msg # None
           /\ lastCall'.msg[1].type \in {"cad_command", "cad_update", "screenshot_request"})
          => UNCHANGED messages
       /\ \A i \in 1..Len(messages') :
             messages'[i].type \notin {"cad_command", "cad_update", "screenshot_request"}]_vars

\* a cad_command has just been handled while the log already held a message
C10_Witness ==
    /\ lastCall.op = "select_faces"
    /\ Len(messages) > 0
    /\ selectedFaces # <<>>

storeVars == <<modelVars, selectedFaces, hoveredFace, multiSelectMode, featureVars,
               displayVars, clipVars>>

\* C11: handling an inbound message whose type is none of the known types
\* leaves the message log, the model state and the connection unchanged.
C11_UnknownTypeDropped ==
    [][(lastCall'.msg # None /\ lastCall'.msg[1].type \notin KnownTypes)
       => UNCHANGED <<messages, storeVars, transportVars>>]_vars

\* C12: handling a cad_command whose action is none of the known actions leaves
\* the model state, the message log and the connection unchanged.
C12_UnknownActionIgnored ==
    [][(/\ lastCall'.msg # None
        /\ lastCall'.msg[1].type = "cad_command"
        /\ lastCall'.msg[1].action \notin KnownActions)
       => UNCHANGED <<storeVars, colors, showDialog, messages, transportVars>>]_vars

\* a command with an unknown action has just been handled while a face was
\* selected and the log held a message
C12_Witness ==
    /\ lastCall.msg = Some(Rotate)
    /\ selectedFaces # <<>>
    /\ Len(messages) > 0

\* C13: once the transport is torn down it is Disconnected in every later
\* state: no step opens a connection or sets the connected flag, whatever
\* close and timer events follow.
C13_TornDownStaysDisconnected ==
    [][cancelled' => (/\ TransportState' = "Disconnected"
                      /\ lastCall'.op # "connect"
                      /\ connected' => connected)]_vars

\* the close event of the socket has been delivered after the teardown
C13_Witness ==
    /\ cancelled
    /\ lastCall.op = "onclose"
    /\ wsState = "CLOSED"

\* C14: at most one reconnect timer is pending, it is the one held in
\* retryTimeout, and after teardown none is pending.
C14_OneReconnectTimer ==
    /\ retryTimers <= 1
    /\ retryTimers = 1 => retryTimeout
    /\ cancelled => retryTimers = 0

\* the transport has just been torn down while the socket was closed, that is
\* while a reconnect timer was pending
C14_Witness ==
    /\ lastCall.op = "teardown"
    /\ wsState = "CLOSED"

\* C15: while the transport is not torn down, a socket that is not open is
\* being opened or has its reconnect timer pending; and a closed socket leads
\* to a new connection attempt unless the transport is torn down first.
C15_ReconnectsEventually ==
    /\ [](~cancelled => (wsState \in {"CONNECTING", "OPEN"} \/ retryTimers > 0))
    /\ (wsState = "CLOSED" /\ ~cancelled) ~> (wsState = "CONNECTING" \/ cancelled)

\* the reconnect timer has fired and a second reconnection is under way: the
\* new socket failed or closed, and the next timer fired too
C15_Witness ==
    /\ lastCall.op = "connect"
    /\ wsState = "CONNECTING"
    /\ ~cancelled

\* the handlers that load a model: a finished upload, a cad_update message
LoadOps == {"upload", "cad_update"}

\* C16: the step that handles a cad_update message puts the store into the
\* state of loadModel for the mesh and faces of the message, the display flags
\* kept, and the color buffer is the one built anew for that state.
C16_UpdateIsLoad ==
    [][(lastCall'.msg # None /\ lastCall'.msg[1].type = "cad_update")
       => LET m == lastCall'.msg[1] IN
          /\ isLoaded'
          /\ meshData' = Some(m.mesh)
          /\ facesMetadata' = m.faces
          /\ selectedFaces' = <<>>
          /\ hoveredFace' = -1
          /\ features' = ImportedFeatures(FeatureGroups(m.faces))
          /\ faceToFeature' = ImportedIndex(features')
          /\ clipPlane' = None /\ clipOffset' = 0 /\ clipFlipped' = FALSE
          /\ UNCHANGED <<multiSelectMode, displayVars, messages>>
          /\ colors' = Some(rebuildColors(NewColors(m.mesh), m.mesh, <<>>, -1, features',
                                          faceToFeature', colorsVisible))]_vars

\* a cad_update carrying a named face has been handled after the grid plane
\* was switched off
C16_Witness ==
    /\ lastCall.op = "cad_update"
    /\ features # <<>>
    /\ gridPlane = None

\* is face id fid, in these faces, named with top-level group `name`
NamedInGroup(faces, fid, name) ==
    \E k \in 1..Len(faces) :
        /\ faces[k].id = fid
        /\ Truthy(faces[k].step_name)
        /\ SplitDot(faces[k].step_name[1])[1] = name

\* C17: after every loadModel the selection is empty, no face is hovered, the
\* clip plane is none with offset 0 and unflipped, and every feature member
\* and every index entry comes from the hierarchical name of a face of the
\* newly loaded model.
C17_LoadResets ==
    [][lastCall'.op \in LoadOps
       => /\ selectedFaces' = <<>>
          /\ hoveredFace' = -1
          /\ clipPlane' = None /\ clipOffset' = 0 /\ clipFlipped' = FALSE
          /\ \A i \in 1..Len(features') : \A j \in 1..Len(features'[i].faces) :
                NamedInGroup(facesMetadata', features'[i].faces[j].face_id,
                             features'[i].name)
          /\ \A f \in DOMAIN faceToFeature' :
                NamedInGroup(facesMetadata', f, faceToFeature'[f])]_vars

\* an upload has just loaded a model without named faces, after the display
\* had been changed by a command
C17_Witness ==
    /\ lastCall.op = "upload"
    /\ features = <<>>
    /\ xrayMode

\* C18: loadModel leaves x-ray, wireframe visibility, feature-color visibility
\* and the grid plane unchanged and resets the clip plane, its offset and its
\* direction.
C18_LoadKeepsDisplay ==
    [][lastCall'.op \in LoadOps
       => /\ UNCHANGED <<xrayMode, wireframeVisible, colorsVisible, gridPlane>>
          /\ clipPlane' = None /\ clipOffset' = 0 /\ clipFlipped' = FALSE]_vars

\* a model has just been loaded with every display flag away from its initial
\* value
C18_Witness ==
    /\ lastCall.op \in LoadOps
    /\ xrayMode
    /\ ~wireframeVisible
    /\ ~colorsVisible
    /\ gridPlane # Some("XZ")

\* the vertex indices of triangle triIdx (counted from 0) of a mesh
TriangleVertices(mesh, triIdx) ==
    {mesh.triangles[triIdx * 3 + 1], mesh.triangles[triIdx * 3 + 2],
     mesh.triangles[triIdx * 3 + 3]}

\* C19: in the rebuilt color buffer every vertex of every triangle of a
\* selected face has the selection color, whatever the hover face, the
\* features and colorsVisible are.
C19_SelectionWins ==
    colors # None =>
        \A t \in 0..(NumTriangles(meshData[1]) - 1) :
            SetHas(selectedFaces, meshData[1].face_ids[t + 1])
            => \A v \in TriangleVertices(meshData[1], t) : colors[1][v + 1] = SELECT_COLOR

\* face 1 is selected and belongs to a feature whose color is shown, while
\* the pointer is over face 2, which shares two vertices with face 1
C19_Witness ==
    /\ selectedFaces = <<1>>
    /\ hoveredFace = 2
    /\ FaceAssigned(faceToFeature, 1)
    /\ colorsVisible
    /\ colors # None

\* C20: the color buffer, rebuilt in place after every change, equals the
\* buffer built for the current mesh, selection, hover, features, index and
\* colorsVisible from a new array, and one more rebuild leaves it as it is.
C20_BufferIsFunctionOfState ==
    colors # None =>
        /\ colors[1] = rebuildColors(NewColors(meshData[1]), meshData[1], selectedFaces,
                                     hoveredFace, features, faceToFeature, colorsVisible)
        /\ colors[1] = rebuildColors(colors[1], meshData[1], selectedFaces, hoveredFace,
                                     features, faceToFeature, colorsVisible)

\* the pointer has just left the mesh while a face is selected and a feature
\* is hidden: the buffer has been rebuilt in place several times
C20_Witness ==
    /\ lastCall.op = "hover"
    /\ hoveredFace = -1
    /\ selectedFaces # <<>>
    /\ features # <<>>
    /\ ~colorsVisible

\* the measurement shown for a selection of the loaded model
Measurement(selected) == MeasurementDisplay(selected, facesMetadata, modelInfo)

\* C21: for any two faces A and B, the measurement shown with A selected
\* before B is the measurement shown with B selected before A
C21_MeasurementSymmetric ==
    Len(selectedFaces) = 2 =>
        Measurement(selectedFaces) = Measurement(<<selectedFaces[2], selectedFaces[1]>>)

\* the face-type combinations that have a measurement
MeasuredCombination(faces) ==
    \/ Len(faces) = 1 /\ faces[1].surface_type = Cylindrical
    \/ /\ Len(faces) = 2
       /\ \A i \in 1..2 : faces[i].surface_type \in {Planar, Cylindrical}

\* a cylindrical face among them lacks what its measurement reads: radius and
\* arc angle when it is alone, axis direction and axis point when it is one of two
MissingAttribute(faces) ==
    \E i \in 1..Len(faces) :
        /\ faces[i].surface_type = Cylindrical
        /\ IF Len(faces) = 1
           THEN faces[i].radius = None \/ faces[i].arc_angle = None
           ELSE faces[i].axis_direction = None \/ faces[i].axis_point = None

\* C22: nothing is measured when no face or more than two faces are selected,
\* when the face types are not a single cylinder, two planes, two cylinders
\* or a cylinder and a plane, or when a cylinder lacks a required attribute
C22_NoMeasurement ==
    LET faces == FoundFaces(selectedFaces, facesMetadata) IN
    (\/ Len(selectedFaces) = 0
     \/ Len(selectedFaces) > 2
     \/ ~MeasuredCombination(faces)
     \/ MissingAttribute(faces)) => Measurement(selectedFaces) = None

\* two cylinders are selected, one of them without an axis, and nothing is shown
C22_Witness ==
    /\ Len(selectedFaces) = 2
    /\ \A i \in 1..2 : SurfaceTypeOf(facesMetadata, selectedFaces[i]) = Cylindrical
    /\ MissingAttribute(FoundFaces(selectedFaces, facesMetadata))
    /\ Measurement(selectedFaces) = None
    /\ lastCall.op = "click"

\* C23: the response of an upload request that was issued before the model
\* now loaded was loaded is discarded: it leaves the model state as it is
C23_StaleResponseDiscarded ==
    [][(/\ lastCall'.op = "uploadResponse"
        /\ lastCall'.msg # None
        /\ lastCall'.msg[1].outdated)
       => UNCHANGED <<isLoaded, facesMetadata, meshData, modelInfo, selectedFaces,
                      hoveredFace, featureVars, clipVars>>]_vars

\* a hierarchical name read at its first delimiter: the top-level group, and
\* the remainder if there is one
TopLevelGroup(stepName) ==
    LET i == IndexOf(stepName, ".", 1) IN
    IF i = 0 THEN stepName ELSE SubSeq(stepName, 1, i - 1)

Remainder(stepName) ==
    LET i == IndexOf(stepName, ".", 1) IN
    IF i = 0 THEN None ELSE Some(SubSeq(stepName, i + 1, Len(stepName)))

\* positions of the named faces, and of the first face of each group
NamedFaces(faces) == {i \in 1..Len(faces) : Truthy(faces[i].step_name)}

FirstOfGroup(faces) ==
    {i \in NamedFaces(faces) :
        \A j \in NamedFaces(faces) :
            TopLevelGroup(faces[j].step_name[1]) = TopLevelGroup(faces[i].step_name[1])
                => i <= j}

\* how many groups were seen before the group named g
SeenBefore(faces, g) ==
    Cardinality({i \in FirstOfGroup(faces) :
                    \E j \in FirstOfGroup(faces) :
                        i < j /\ TopLevelGroup(faces[j].step_name[1]) = g})

\* C24: after a load every named face is a member of the feature named by the
\* part of its name before the first ".", with the remainder as sub-name or
\* none; there is one feature per top-level group and no other member, and
\* the features have the palette colors in the order their groups were first seen
C24_ImportedByGroup ==
    lastCall.op \in LoadOps =>
        LET faces == facesMetadata IN
        /\ \A i \in NamedFaces(faces) :
              LET g == TopLevelGroup(faces[i].step_name[1]) IN
              /\ ObjHas(features, g)
              /\ \E j \in 1..Len(ObjGet(features, g).faces) :
                    ObjGet(features, g).faces[j] =
                        [face_id |-> faces[i].id, sub_name |-> Remainder(faces[i].step_name[1])]
        /\ Len(features) = Cardinality(FirstOfGroup(faces))
        /\ \A k \in 1..Len(features) :
              /\ Len(features[k].faces) =
                    Cardinality({i \in NamedFaces(faces) :
                                    TopLevelGroup(faces[i].step_name[1]) = features[k].name})
              /\ features[k].color =
                    SeenBefore(faces, features[k].name) % FEATURE_COLORS_length

\* C25: a feature's color is the palette entry of its creation order modulo
\* the palette length, whatever was deleted in between; hence features that
\* exist together, no more than the palette has colors, differ in color
C25_CoexistingColorsDiffer ==
    Len(features) <= FEATURE_COLORS_length =>
        \A i \in 1..Len(features), j \in 1..Len(features) :
            i # j => features[i].color # features[j].color

\* C29: a successful createFeature gives the new feature the palette color at
\* the index (number of features that existed just before) modulo the palette
\* length
C29_ColorByFeatureCount ==
    [][(lastCall'.op \in CreateOps /\ lastCall'.success)
       => (/\ ObjHas(features', lastCall'.name)
           /\ ObjGet(features', lastCall'.name).color
                  = Len(features) % FEATURE_COLORS_length)]_vars

\* an eleventh feature has just been created next to ten imported ones and has
\* the first palette color again
C29_Witness ==
    /\ lastCall.op = "create_feature"
    /\ lastCall.success
    /\ Len(features) = FEATURE_COLORS_length + 1
    /\ ObjGet(features, lastCall.name).color = 0

\* C26: a successful createFeature(name) empties the selection and adds one
\* feature, called name, whose members are the faces that were selected; the
\* features that existed keep their name, color and members, and the hover
\* face and the display flags stay as they are
C26_CreateFrame ==
    [][(lastCall'.op \in CreateOps /\ lastCall'.success)
       => (/\ selectedFaces' = <<>>
           /\ ~ObjHas(features, lastCall'.name)
           /\ ObjHas(features', lastCall'.name)
           /\ Len(features') = Len(features) + 1
           /\ MemberIds(ObjGet(features', lastCall'.name)) = Range(selectedFaces)
           /\ Len(ObjGet(features', lastCall'.name).faces) = Len(selectedFaces)
           /\ \A k \in 1..Len(features) :
                 /\ ObjHas(features', features[k].name)
                 /\ ObjGet(features', features[k].name) = features[k]
           /\ UNCHANGED <<hoveredFace, displayVars, clipVars>>)]_vars

\* a feature has just been created next to an imported one, while a face was
\* hovered and the feature colors were hidden
C26_Witness ==
    /\ lastCall.op = "create_feature"
    /\ lastCall.success
    /\ Len(features) = 2
    /\ selectedFaces = <<>>
    /\ hoveredFace # -1
    /\ ~colorsVisible

\* the k-th smallest of a set of face ids
NthSmallest(ids, k) == CHOOSE x \in ids : Cardinality({y \in ids : y < x}) = k - 1

\* the sub-name the rule gives a face among the faces of the new feature
SubNameByRule(metas, ids, fid) ==
    LET t == SurfaceTypeOf(metas, fid)
        sameType == {x \in ids : SurfaceTypeOf(metas, x) = t}
    IN IF Cardinality(ids) = 1 THEN None
       ELSE IF Cardinality(sameType) = 1 THEN Some(t)
       ELSE Some(t \o <<"_">> \o NumStr(Cardinality({x \in sameType : x <= fid})))

\* C27: createFeature lists the members in ascending order of face id; a
\* single member has no sub-name, otherwise a face whose surface type no other
\* selected face has gets the type, and the N > 1 faces of one type get
\* type_1 .. type_N in ascending order of face id: the feature depends on the
\* set of selected faces only, not on the order of selection
C27_SubNames ==
    [][(lastCall'.op \in CreateOps /\ lastCall'.success)
       => LET ids == Range(selectedFaces)
              made == ObjGet(features', lastCall'.name).faces
          IN /\ Len(made) = Cardinality(ids)
             /\ \A k \in 1..Len(made) :
                   /\ made[k].face_id = NthSmallest(ids, k)
                   /\ made[k].sub_name = SubNameByRule(facesMetadata, ids, made[k].face_id)]_vars

\* a feature has just been created from three faces, two of one surface type
\* and one of another
C27_Witness ==
    /\ lastCall.op = "create_feature"
    /\ lastCall.success
    /\ LET made == ObjGet(features, lastCall.name).faces IN
       /\ Len(made) = 3
       /\ \E k \in 1..3 : made[k].sub_name = Some(Cylindrical)
       /\ \E k \in 1..3 : made[k].sub_name = Some(Planar \o <<"_", "2">>)

DeleteOps == {"delete_feature", "deleteClick"}

\* C28: deleteFeature(name) removes the feature and the reverse-index entries
\* of its members and nothing else: the other features and their index
\* entries, the selection, the hover face and the display flags stay as they
\* are; for a name that is no feature the whole state stays as it is
C28_DeleteFrame ==
    [][lastCall'.op \in DeleteOps
       => IF ObjHas(features, lastCall'.name)
          THEN /\ ~ObjHas(features', lastCall'.name)
               /\ Len(features') = Len(features) - 1
               /\ \A k \in 1..Len(features) :
                     features[k].name # lastCall'.name
                        => /\ ObjHas(features', features[k].name)
                           /\ ObjGet(features', features[k].name) = features[k]
               /\ \A id \in DOMAIN faceToFeature' : faceToFeature'[id] # lastCall'.name
               /\ \A id \in DOMAIN faceToFeature :
                     faceToFeature[id] # lastCall'.name
                        => id \in DOMAIN faceToFeature' /\ faceToFeature'[id] = faceToFeature[id]
               /\ DOMAIN faceToFeature' \subseteq DOMAIN faceToFeature
               /\ UNCHANGED <<modelVars, selectedFaces, hoveredFace, multiSelectMode,
                              displayVars, clipVars>>
          ELSE UNCHANGED storeVars]_vars

\* the vertices of the triangles of the faces in ids
FaceVertices(mesh, ids) ==
    UNION {TriangleVertices(mesh, t) :
               t \in {u \in 0..(NumTriangles(mesh) - 1) : mesh.face_ids[u + 1] \in ids}}

\* C30: in the rebuilt color buffer, when the hover face is set and not
\* selected, every vertex of its triangles that is no vertex of a triangle of
\* a selected face has the hover color, whatever the feature colors are; when
\* the hover face is selected or none, no vertex has the hover color.
C30_HoverColor ==
    colors # None =>
        IF hoveredFace >= 0 /\ ~SetHas(selectedFaces, hoveredFace)
        THEN \A v \in FaceVertices(meshData[1], {hoveredFace})
                       \ FaceVertices(meshData[1], Range(selectedFaces)) :
                 colors[1][v + 1] = HOVER_COLOR
        ELSE \A v \in 0..(meshData[1].numVertices - 1) : colors[1][v + 1] # HOVER_COLOR

\* the pointer is over face 2, which belongs to a feature whose color is
\* shown, while its neighbour face 1 is selected: vertices 4 and 5 belong to
\* face 2 alone
C30_Witness ==
    /\ hoveredFace = 2
    /\ selectedFaces = <<1>>
    /\ FaceAssigned(faceToFeature, 2)
    /\ colorsVisible
    /\ colors # None
    /\ FaceVertices(meshData[1], {2}) \ FaceVertices(meshData[1], {1}) = {4, 5}

\* the face has an entry in the index that names a feature of the store
InFeature(fid) == fid \in DOMAIN faceToFeature /\ ObjHas(features, faceToFeature[fid])

\* a triangle after triIdx, of a face of another feature, has the vertex v
RepaintedLater(mesh, triIdx, v) ==
    \E u \in (triIdx + 1)..(NumTriangles(mesh) - 1) :
        /\ v \in TriangleVertices(mesh, u)
        /\ InFeature(mesh.face_ids[u + 1])
        /\ faceToFeature[mesh.face_ids[u + 1]] # faceToFeature[mesh.face_ids[triIdx + 1]]

\* C31: in the rebuilt color buffer, when colorsVisible is false every vertex
\* has the base, hover or selection color; when colorsVisible is true, every
\* vertex of a triangle whose face belongs to a feature has that feature's
\* color, unless a triangle of the hover face or of a selected face, or a later
\* triangle of another feature, has the vertex.
C31_FeatureColors ==
    colors # None =>
        IF ~colorsVisible
        THEN \A v \in 0..(meshData[1].numVertices - 1) :
                 colors[1][v + 1] \in {BASE_COLOR, HOVER_COLOR, SELECT_COLOR}
        ELSE \A t \in 0..(NumTriangles(meshData[1]) - 1) :
                 InFeature(meshData[1].face_ids[t + 1])
                 => \A v \in TriangleVertices(meshData[1], t)
                               \ FaceVertices(meshData[1],
                                              {hoveredFace} \cup Range(selectedFaces)) :
                        \/ RepaintedLater(meshData[1], t, v)
                        \/ colors[1][v + 1] =
                               FeatureColor(ObjGet(features,
                                                   faceToFeature[meshData[1].face_ids[t + 1]]))

\* digits thousandths is num/den rounded to three decimals
RoundsTo(digits, num, den) == 2 * Abs(digits * den - 1000 * num) <= den

\* C32: with a single cylindrical face selected whose radius and arc angle
\* are known, the measurement is the diameter 2 x radius x scale when the arc
\* angle is 180 degrees or more, and the radius radius x scale when it is less
C32_DiameterOrRadius ==
    LET faces == FoundFaces(selectedFaces, facesMetadata) IN
    (/\ Len(selectedFaces) = 1
     /\ Len(faces) = 1
     /\ modelInfo # None
     /\ faces[1].surface_type = Cylindrical
     /\ faces[1].radius # None
     /\ faces[1].arc_angle # None)
    => LET r == faces[1].radius[1]
           k == modelInfo[1].length_scale
           m == Measurement(selectedFaces) IN
       /\ m # None
       /\ m[1][3] = modelInfo[1].length_unit
       /\ IF faces[1].arc_angle[1] >= 180
          THEN m[1][1] = "Diameter" /\ RoundsTo(m[1][2], 2 * r[1] * k[1], r[2] * k[2])
          ELSE m[1][1] = "Radius" /\ RoundsTo(m[1][2], r[1] * k[1], r[2] * k[2])

\* the half cylinder of radius 3 is selected in a model shown in centimetres:
\* "Diameter: 0.600 cm"
C32_Witness ==
    /\ Len(selectedFaces) = 1
    /\ modelInfo = Some(Centimetres)
    /\ LET faces == FoundFaces(selectedFaces, facesMetadata) IN
       /\ Len(faces) = 1
       /\ faces[1].surface_type = Cylindrical
       /\ faces[1].radius = Some(Whole(3))
       /\ faces[1].arc_angle = Some(180)
    /\ Measurement(selectedFaces) = Some(<<"Diameter", 600, "cm">>)

\* the store's mutation entry points
MutationEntryPoints ==
    {"selectFace", "clearSelection", "createFeature", "deleteFeature", "loadModel",
     "clearModel"}

\* the store actions that the handler recorded as op calls; handleFeatureClick
\* ("featureClick") calls none: it writes with useModelStore.setState
StoreCalls(op) ==
    CASE op \in {"click", "select_faces"} -> {"selectFace"}
      [] op \in {"clearSelection", "clear_selection"} -> {"clearSelection"}
      [] op \in {"dialogCreate", "create_feature"} -> {"createFeature"}
      [] op \in {"deleteClick", "delete_feature"} -> {"deleteFeature"}
      [] op \in {"upload", "uploadResponse", "cad_update"} -> {"loadModel"}
      [] op = "clearModel" -> {"clearModel"}
      [] op = "toggleMultiSelect" -> {"toggleMultiSelect"}
      [] op = "hover" -> {"setHoveredFace"}
      [] op = "setColors" -> {"setColors"}
      [] op = "setGridPlane" -> {"setGridPlane"}
      [] op = "setClipPlane" -> {"setClipPlane"}
      [] op = "flipClip" -> {"flipClip"}
      [] op = "setClipOffset" -> {"setClipOffset"}
      [] op = "set_display" -> {"setXray", "setWireframe", "setColors", "setClipPlane"}
      [] OTHER -> {}

\* C33: the selection and the feature data change only in a step of a handler
\* that calls one of the store's mutation entry points
C33_OnlyEntryPointsWrite ==
    [][(\/ selectedFaces' # selectedFaces
        \/ features' # features
        \/ faceToFeature' # faceToFeature)
       => StoreCalls(lastCall'.op) \cap MutationEntryPoints # {}]_vars

\* C34: the connected flag is true exactly when the current socket, the one
\* that sendMessage would use, is open
C34_ConnectedIffOpen == connected <=> wsState = "OPEN"

C36_SetDisplayIdempotent ==
    [][(lastCall'.op = "set_display" /\ lastCall.op = "set_display"
        /\ lastCall'.msg = lastCall.msg)
       => UNCHANGED <<displayVars, clipVars>>]_vars

\* C37: when a create_feature command that follows a select_faces command
\* with the ids L succeeds, the members of the created feature are the ids in
\* L, whatever was selected before the two commands
C37_AgentFeatureMembers ==
    [][(/\ lastCall.op = "select_faces"
        /\ lastCall'.op = "create_feature"
        /\ lastCall'.success)
       => MemberIds(ObjGet(features', lastCall'.name)) = Range(lastCall.ids)]_vars

\* C38: the waiting state that a sent chat message sets is cleared in the end
C38_WaitingClears == waiting ~> ~waiting

\* C39: with exactly two ids selected the measurement shown is never that of a
\* single face, a diameter or a radius: it is a two-face measurement or none
C39_TwoSelectedNoSingle ==
    Len(selectedFaces) = 2 =>
        \/ Measurement(selectedFaces) = None
        \/ Measurement(selectedFaces)[1][1] \notin {"Diameter", "Radius"}

====
